---- MODULE Spec2Model ----
(***************************************************************************)
(* A model of the bioguide resolution and term-merging engine of vistos:   *)
(* the session calendar and input normalizer (vistos/src/gpo/util.py), the *)
(* term merge and the per-person / per-roster queries                      *)
(* (vistos/src/gpo/bioguideretro.py) and the CongressMember / Congress     *)
(* aggregates (vistos/src/duo.py).                                         *)
(***************************************************************************)
EXTENDS Integers, Sequences, FiniteSets, TLC

VARIABLES
    now,        \* what datetime.now() returns when a call starts:
                \* [year, month, day]
    clock,      \* what each datetime.now() of the call returned, in order
    op,         \* the util function called last
    arg,        \* its argument
    ret,        \* its outcome: [exc |-> "none", val |-> v] or a raised exception
    raw_terms,      \* the raw terms of one document as its XML gave them, in
                    \* XML order
    term_records,   \* _merge_terms: the list of the raw term objects, which
                    \* the loop writes into
    idx,            \* _merge_terms: the index of the next raw term of the loop
    merged_terms,   \* _merge_terms: the values of the dict, in insertion order
    merged_objects, \* _merge_terms: for each value of the dict, the place in
                    \* term_records of the object that it is
    mpc,            \* _merge_terms: "idle", "loop" or "returned"
    registry,   \* the Bioguide registry: identifier -> the XML document served
    member,     \* a CongressMember object: _bg, _bg_id, _load_member_bg
    mop,        \* the CongressMember call made last, "none" before __init__
    mexc,       \* the exception that call raised, "none" when it returned
    roster_args,    \* the arguments of the Congress(...) calls, in order
    results,        \* the BioguideCongressRecord each finished call loaded
    _number,        \* Congress._number of the call in progress
    main_pc,        \* the calling thread: "idle", "put", "join", "cleanup"
    put_idx,        \* the next bioguide_ids index to put, or the sentinels put
    q,              \* the PriorityQueue: [ids, zeros, unfinished_tasks]
    threading,      \* the flag the workers loop on
    workers,        \* per worker thread: [pc, bioguide_id]
    member_records, \* the list the workers append to
    last_name,      \* the argument of Text.fix_last_name_casing
    fixed_last_name,    \* what the call returned, None before it
    validator,      \* the option validator called, "none" before a call
    value,          \* the position, party or state handed to it
    valid,          \* what the validator returned
    search_args,    \* _query_members(pos, party, state, congress)
    site,           \* the result pages the site serves for the query
    spc,            \* where _query_members is: "start", "token", "refresh",
                    \* "send", "page", "doc", "done", "raised"
    attempts,       \* the local `attempts` of send(), of the page loop and
                    \* of _query_member_by_id
    issued,         \* how often the request in progress has been sent
    requested,      \* the kinds of request sent since the call started
    send_return,    \* the caller of the send() in progress
    page_num,       \* _scrape_bioguide_ids: page_num
    scraped_ids,    \* _scrape_bioguide_ids: bioguide_ids
    doc_idx,        \* _get_member_records: the index of bioguide_id
    search_records, \* _get_member_records: member_records
    search_exc,     \* the exception that left _query_members, and its origin
    congress_args,  \* Congress(number_or_year, govinfo_api_key,
                    \* include_bioguide, load_immediately)
    directory,      \* GovInfo: congress number -> the entries of its directory
    congress_object, \* the Congress object
    cpc,            \* "none", "constructed", "loaded", "listed"
    members_ret,    \* what Congress.members returned or raised
    fetch,          \* one call of _query_member_by_id: its position, its
                    \* locals and what the registry was asked
    crawl           \* one call of _query_bioguide_by_number up to the
                    \* identifier list: its position, the locals of the
                    \* functions it is in, the site, the index and the
                    \* requests sent

calvars == <<now, clock, op, arg, ret>>
mergevars == <<raw_terms, term_records, idx, merged_terms, merged_objects, mpc>>
membervars == <<registry, member, mop, mexc>>
rostervars ==
    <<roster_args, results, _number, main_pc, put_idx, q, threading, workers,
      member_records>>
textvars == <<last_name, fixed_last_name>>
optionvars == <<validator, value, valid>>
searchvars ==
    <<search_args, site, spc, attempts, issued, requested, send_return,
      page_num, scraped_ids, doc_idx, search_records, search_exc>>
duovars == <<congress_args, directory, congress_object, cpc, members_ret>>
fetchvars == <<fetch>>
crawlvars == <<crawl>>
extvars ==
    <<textvars, optionvars, searchvars, duovars, fetchvars, crawlvars>>
basevars == <<calvars, mergevars, membervars, rostervars>>
vars == <<basevars, extvars>>

----------------------------------------------------------------------------
(* Python values: None, results and exceptions.                            *)

\* Optional[int]: None or an int.
None == [none |-> TRUE, val |-> 0]
Some(v) == [none |-> FALSE, val |-> v]

\* A call that returns v, and a call that raises exception e.
Ok(v) == [exc |-> "none", val |-> v]
Raise(e) == [exc |-> e, val |-> 0]

\* Python's max() and min() of a non-empty set of ints.
py_max(S) == CHOOSE x \in S : \A y \in S : y <= x
py_min(S) == CHOOSE x \in S : \A y \in S : x <= y

----------------------------------------------------------------------------
(* Session calendar: vistos/src/gpo/util.py                                *)

\* congress number -> (start year, end year); a Python tuple t[0], t[1] is
\* the TLA+ tuple t[1], t[2].
_NUMBER_YEAR_MAPPING ==
    (0 :> <<1786, 1789>>) @@ (1 :> <<1789, 1791>>) @@ (2 :> <<1791, 1793>>) @@ (3 :> <<1793, 1795>>) @@
    (4 :> <<1795, 1797>>) @@ (5 :> <<1797, 1799>>) @@ (6 :> <<1799, 1801>>) @@ (7 :> <<1801, 1803>>) @@
    (8 :> <<1803, 1805>>) @@ (9 :> <<1805, 1807>>) @@ (10 :> <<1807, 1809>>) @@ (11 :> <<1809, 1811>>) @@
    (12 :> <<1811, 1813>>) @@ (13 :> <<1813, 1815>>) @@ (14 :> <<1815, 1817>>) @@ (15 :> <<1817, 1819>>) @@
    (16 :> <<1819, 1821>>) @@ (17 :> <<1821, 1823>>) @@ (18 :> <<1823, 1825>>) @@ (19 :> <<1825, 1827>>) @@
    (20 :> <<1827, 1829>>) @@ (21 :> <<1829, 1831>>) @@ (22 :> <<1831, 1833>>) @@ (23 :> <<1833, 1835>>) @@
    (24 :> <<1835, 1837>>) @@ (25 :> <<1837, 1839>>) @@ (26 :> <<1839, 1841>>) @@ (27 :> <<1841, 1843>>) @@
    (28 :> <<1843, 1845>>) @@ (29 :> <<1845, 1847>>) @@ (30 :> <<1847, 1849>>) @@ (31 :> <<1849, 1851>>) @@
    (32 :> <<1851, 1853>>) @@ (33 :> <<1853, 1855>>) @@ (34 :> <<1855, 1857>>) @@ (35 :> <<1857, 1859>>) @@
    (36 :> <<1859, 1861>>) @@ (37 :> <<1861, 1863>>) @@ (38 :> <<1863, 1865>>) @@ (39 :> <<1865, 1867>>) @@
    (40 :> <<1867, 1869>>) @@ (41 :> <<1869, 1871>>) @@ (42 :> <<1871, 1873>>) @@ (43 :> <<1873, 1875>>) @@
    (44 :> <<1875, 1877>>) @@ (45 :> <<1877, 1879>>) @@ (46 :> <<1879, 1881>>) @@ (47 :> <<1881, 1883>>) @@
    (48 :> <<1883, 1885>>) @@ (49 :> <<1885, 1887>>) @@ (50 :> <<1887, 1889>>) @@ (51 :> <<1889, 1891>>) @@
    (52 :> <<1891, 1893>>) @@ (53 :> <<1893, 1895>>) @@ (54 :> <<1895, 1897>>) @@ (55 :> <<1897, 1899>>) @@
    (56 :> <<1899, 1901>>) @@ (57 :> <<1901, 1903>>) @@ (58 :> <<1903, 1905>>) @@ (59 :> <<1905, 1907>>) @@
    (60 :> <<1907, 1909>>) @@ (61 :> <<1909, 1911>>) @@ (62 :> <<1911, 1913>>) @@ (63 :> <<1913, 1915>>) @@
    (64 :> <<1915, 1917>>) @@ (65 :> <<1917, 1919>>) @@ (66 :> <<1919, 1921>>) @@ (67 :> <<1921, 1923>>) @@
    (68 :> <<1923, 1925>>) @@ (69 :> <<1925, 1927>>) @@ (70 :> <<1927, 1929>>) @@ (71 :> <<1929, 1931>>) @@
    (72 :> <<1931, 1933>>) @@ (73 :> <<1933, 1935>>) @@ (74 :> <<1935, 1937>>) @@ (75 :> <<1937, 1939>>) @@
    (76 :> <<1939, 1941>>) @@ (77 :> <<1941, 1943>>) @@ (78 :> <<1943, 1945>>) @@ (79 :> <<1945, 1947>>) @@
    (80 :> <<1947, 1949>>) @@ (81 :> <<1949, 1951>>) @@ (82 :> <<1951, 1953>>) @@ (83 :> <<1953, 1955>>) @@
    (84 :> <<1955, 1957>>) @@ (85 :> <<1957, 1959>>) @@ (86 :> <<1959, 1961>>) @@ (87 :> <<1961, 1963>>) @@
    (88 :> <<1963, 1965>>) @@ (89 :> <<1965, 1967>>) @@ (90 :> <<1967, 1969>>) @@ (91 :> <<1969, 1971>>) @@
    (92 :> <<1971, 1973>>) @@ (93 :> <<1973, 1975>>) @@ (94 :> <<1975, 1977>>) @@ (95 :> <<1977, 1979>>) @@
    (96 :> <<1979, 1981>>) @@ (97 :> <<1981, 1983>>) @@ (98 :> <<1983, 1985>>) @@ (99 :> <<1985, 1987>>) @@
    (100 :> <<1987, 1989>>) @@ (101 :> <<1989, 1991>>) @@ (102 :> <<1991, 1993>>) @@ (103 :> <<1993, 1995>>) @@
    (104 :> <<1995, 1997>>) @@ (105 :> <<1997, 1999>>) @@ (106 :> <<1999, 2001>>) @@ (107 :> <<2001, 2003>>) @@
    (108 :> <<2003, 2005>>) @@ (109 :> <<2005, 2007>>) @@ (110 :> <<2007, 2009>>) @@ (111 :> <<2009, 2011>>) @@
    (112 :> <<2011, 2013>>) @@ (113 :> <<2013, 2015>>) @@ (114 :> <<2015, 2017>>) @@ (115 :> <<2017, 2019>>) @@
    (116 :> <<2019, 2021>>) @@ (117 :> <<2021, 2023>>) @@ (118 :> <<2023, 2025>>) @@ (119 :> <<2025, 2027>>) @@
    (120 :> <<2027, 2029>>) @@ (121 :> <<2029, 2031>>) @@ (122 :> <<2031, 2033>>) @@ (123 :> <<2033, 2035>>) @@
    (124 :> <<2035, 2037>>) @@ (125 :> <<2037, 2039>>) @@ (126 :> <<2039, 2041>>) @@ (127 :> <<2041, 2043>>) @@
    (128 :> <<2043, 2045>>) @@ (129 :> <<2045, 2047>>) @@ (130 :> <<2047, 2049>>) @@ (131 :> <<2049, 2051>>) @@
    (132 :> <<2051, 2053>>) @@ (133 :> <<2053, 2055>>) @@ (134 :> <<2055, 2057>>) @@ (135 :> <<2057, 2059>>) @@
    (136 :> <<2059, 2061>>) @@ (137 :> <<2061, 2063>>) @@ (138 :> <<2063, 2065>>) @@ (139 :> <<2065, 2067>>) @@
    (140 :> <<2067, 2069>>) @@ (141 :> <<2069, 2071>>) @@ (142 :> <<2071, 2073>>) @@ (143 :> <<2073, 2075>>) @@
    (144 :> <<2075, 2077>>) @@ (145 :> <<2077, 2079>>) @@ (146 :> <<2079, 2081>>) @@ (147 :> <<2081, 2083>>) @@
    (148 :> <<2083, 2085>>) @@ (149 :> <<2085, 2087>>) @@ (150 :> <<2087, 2089>>)

\* The highest congress number of the table.
LastCongress == py_max(DOMAIN _NUMBER_YEAR_MAPPING)

first_valid_year == _NUMBER_YEAR_MAPPING[0][1]

is_valid_number(number) == number \in DOMAIN _NUMBER_YEAR_MAPPING

get_congress_numbers(year) ==
    {number \in DOMAIN _NUMBER_YEAR_MAPPING :
        /\ _NUMBER_YEAR_MAPPING[number][2] >= year
        /\ year >= _NUMBER_YEAR_MAPPING[number][1]}

\* Mutants of the two lookups: the other element of the tuple is returned.
get_start_year_slip(number) ==
    IF number \in DOMAIN _NUMBER_YEAR_MAPPING
    THEN Ok(_NUMBER_YEAR_MAPPING[number][2])
    ELSE Raise("KeyError")

get_end_year_slip(number) ==
    IF number \in DOMAIN _NUMBER_YEAR_MAPPING
    THEN Ok(_NUMBER_YEAR_MAPPING[number][1])
    ELSE Raise("KeyError")

\* A dict lookup with a missing key raises KeyError.
get_start_year(number) ==
    IF is_valid_number(number)
    THEN Ok(_NUMBER_YEAR_MAPPING[number][1])
    ELSE Raise("KeyError")

get_end_year(number) ==
    IF is_valid_number(number)
    THEN Ok(_NUMBER_YEAR_MAPPING[number][2])
    ELSE Raise("KeyError")

\* The day after a date of the Gregorian calendar.
is_leap_year(year) == (year % 4 = 0 /\ year % 100 # 0) \/ year % 400 = 0

days_in_month(year, month) ==
    IF month = 2
    THEN (IF is_leap_year(year) THEN 29 ELSE 28)
    ELSE IF month \in {4, 6, 9, 11}
    THEN 30
    ELSE 31

next_day(date) ==
    IF date.day < days_in_month(date.year, date.month)
    THEN [date EXCEPT !.day = @ + 1]
    ELSE IF date.month < 12
    THEN [date EXCEPT !.month = @ + 1, !.day = 1]
    ELSE [year |-> date.year + 1, month |-> 1, day |-> 1]

\* What n successive calls of datetime.now() can return to a call that
\* starts at `now`: the first returns now, and midnight may pass between
\* one call and the next; a call takes less than a day.
clock_reads(n) ==
    {[i \in 1..n |-> IF i <= k THEN now ELSE next_day(now)] : k \in 1..n}

\* get_current_congress_number: the year, the month and the day each come
\* from a datetime.now() of their own, reads[1], reads[2] and reads[3].
\* min() and max() of an empty set raise ValueError.
get_current_congress_number(reads) ==
    LET current_year == reads[1].year
        current_month == reads[2].month
        current_day == reads[3].day
        congresses == get_congress_numbers(current_year)
    IN  IF congresses = {}
        THEN Raise("ValueError")
        ELSE IF current_month = 1 /\ current_day < 3
             THEN Ok(py_min(congresses))
             ELSE Ok(py_max(congresses))

\* The congress in session when the test suite was written.
CURRENT_CONGRESS == 116

\* Mutant: a boundary year resolves to the earlier of its two congresses.
convert_min(number_or_year, reads) ==
    IF number_or_year.none
    THEN get_current_congress_number(reads)
    ELSE LET v == number_or_year.val
         IN  IF v >= reads[1].year
             THEN get_current_congress_number(SubSeq(reads, 2, 4))
             ELSE IF v >= first_valid_year
             THEN IF get_congress_numbers(v) = {}
                  THEN Raise("ValueError")
                  ELSE Ok(py_min(get_congress_numbers(v)))
             ELSE LET current_congress ==
                          get_current_congress_number(SubSeq(reads, 2, 4))
                  IN  IF current_congress.exc # "none"
                      THEN current_congress
                      ELSE IF v > current_congress.val
                      THEN current_congress
                      ELSE IF v >= 0
                      THEN Ok(v)
                      ELSE Ok(0)

\* Mutant: the first year of the calendar is not taken for a year.
convert_after_first_year(number_or_year, reads) ==
    IF number_or_year.none
    THEN get_current_congress_number(reads)
    ELSE LET v == number_or_year.val
         IN  IF v >= reads[1].year
             THEN get_current_congress_number(SubSeq(reads, 2, 4))
             ELSE IF v > first_valid_year
             THEN IF get_congress_numbers(v) = {}
                  THEN Raise("ValueError")
                  ELSE Ok(py_max(get_congress_numbers(v)))
             ELSE LET current_congress ==
                          get_current_congress_number(SubSeq(reads, 2, 4))
                  IN  IF current_congress.exc # "none"
                      THEN current_congress
                      ELSE IF v > current_congress.val
                      THEN current_congress
                      ELSE IF v >= 0
                      THEN Ok(v)
                      ELSE Ok(0)

\* Mutant: negative numbers are not floored at zero.
convert_nofloor(number_or_year, reads) ==
    IF number_or_year.none
    THEN get_current_congress_number(reads)
    ELSE LET v == number_or_year.val
         IN  IF v >= reads[1].year
             THEN get_current_congress_number(SubSeq(reads, 2, 4))
             ELSE IF v >= first_valid_year
             THEN IF get_congress_numbers(v) = {}
                  THEN Raise("ValueError")
                  ELSE Ok(py_max(get_congress_numbers(v)))
             ELSE LET current_congress ==
                          get_current_congress_number(SubSeq(reads, 2, 4))
                  IN  IF current_congress.exc # "none"
                      THEN current_congress
                      ELSE IF v > current_congress.val
                      THEN current_congress
                      ELSE Ok(v)

\* convert_to_congress_number: with an argument, reads[1] is the
\* datetime.now() of the comparison with the current year and the three
\* after it are those of get_current_congress_number; with None the three
\* of get_current_congress_number are the first.
convert_to_congress_number(number_or_year, reads) ==
    IF number_or_year.none
    THEN get_current_congress_number(reads)
    ELSE LET v == number_or_year.val
         IN  IF v >= reads[1].year
             THEN get_current_congress_number(SubSeq(reads, 2, 4))
             ELSE IF v >= first_valid_year
             THEN IF get_congress_numbers(v) = {}
                  THEN Raise("ValueError")
                  ELSE Ok(py_max(get_congress_numbers(v)))
             ELSE LET current_congress ==
                          get_current_congress_number(SubSeq(reads, 2, 4))
                  IN  IF current_congress.exc # "none"
                      THEN current_congress
                      ELSE IF v > current_congress.val
                      THEN current_congress
                      ELSE IF v >= 0
                      THEN Ok(v)
                      ELSE Ok(0)

\* The calls of datetime.now() that convert_to_congress_number makes.
convert_clock_reads(number_or_year, reads) ==
    IF number_or_year.none
    THEN 3
    ELSE IF number_or_year.val >= reads[1].year
    THEN 4
    ELSE IF number_or_year.val >= first_valid_year
    THEN 1
    ELSE 4

----------------------------------------------------------------------------
(* Term records and the term merge: vistos/src/gpo/bioguideretro.py        *)

\* BioguideTermRecord.__init__: the years come from the calendar, the flag
\* from the position text.
BioguideTermRecord(congress_number, party, position, state) ==
    [congress_number |-> congress_number,
     term_start |-> _NUMBER_YEAR_MAPPING[congress_number][1],
     term_end |-> _NUMBER_YEAR_MAPPING[congress_number][2],
     position |-> position,
     state |-> state,
     party |-> party,
     speaker_of_the_house |-> position = "speaker of the house"]

\* The index of the dict entry of a congress number, 0 when there is none
\* (the lookup raises KeyError).
lookup_term(merged, congress_number) ==
    IF \E k \in 1..Len(merged) : merged[k].congress_number = congress_number
    THEN CHOOSE k \in 1..Len(merged) :
            merged[k].congress_number = congress_number
    ELSE 0

\* Mutant: a stored speaker entry keeps its position text.
merge_step_keep_speaker(merged, term) ==
    IF term.position \in {"vice president", "president"}
    THEN merged
    ELSE LET k == lookup_term(merged, term.congress_number)
         IN  IF k = 0
             THEN Append(merged, term)
             ELSE LET match == IF merged[k].party # term.party
                               THEN term
                               ELSE merged[k]
                  IN  [merged EXCEPT ![k] =
                        IF term.speaker_of_the_house
                        THEN [match EXCEPT !.speaker_of_the_house = TRUE]
                        ELSE match]

\* Mutant: only "president" is skipped.
merge_step_president_only(merged, term) ==
    IF term.position = "president"
    THEN merged
    ELSE LET k == lookup_term(merged, term.congress_number)
         IN  IF k = 0
             THEN Append(merged, term)
             ELSE LET match == IF merged[k].party # term.party
                               THEN term
                               ELSE merged[k]
                  IN  [merged EXCEPT ![k] =
                        IF match.speaker_of_the_house
                        THEN [match EXCEPT !.position = term.position]
                        ELSE IF term.speaker_of_the_house
                        THEN [match EXCEPT !.speaker_of_the_house = TRUE]
                        ELSE match]

\* Mutant: a term of another party is added beside the stored one.
merge_step_party_added(merged, term) ==
    IF term.position \in {"vice president", "president"}
    THEN merged
    ELSE LET k == lookup_term(merged, term.congress_number)
         IN  IF k = 0
             THEN Append(merged, term)
             ELSE IF merged[k].party # term.party
             THEN Append(merged, term)
             ELSE [merged EXCEPT ![k] =
                        IF merged[k].speaker_of_the_house
                        THEN [merged[k] EXCEPT !.position = term.position]
                        ELSE IF term.speaker_of_the_house
                        THEN [merged[k] EXCEPT !.speaker_of_the_house = TRUE]
                        ELSE merged[k]]

\* Mutant: a term of another party replaces the stored one but for its state.
merge_step_keep_state(merged, term) ==
    IF term.position \in {"vice president", "president"}
    THEN merged
    ELSE LET k == lookup_term(merged, term.congress_number)
         IN  IF k = 0
             THEN Append(merged, term)
             ELSE LET match == IF merged[k].party # term.party
                               THEN [term EXCEPT !.state = merged[k].state]
                               ELSE merged[k]
                  IN  [merged EXCEPT ![k] =
                        IF match.speaker_of_the_house
                        THEN [match EXCEPT !.position = term.position]
                        ELSE IF term.speaker_of_the_house
                        THEN [match EXCEPT !.speaker_of_the_house = TRUE]
                        ELSE match]

\* Mutant: the stored entry is kept when the parties differ.
merge_step_first_party(merged, term) ==
    IF term.position \in {"vice president", "president"}
    THEN merged
    ELSE LET k == lookup_term(merged, term.congress_number)
         IN  IF k = 0
             THEN Append(merged, term)
             ELSE LET match == merged[k]
                  IN  [merged EXCEPT ![k] =
                        IF match.speaker_of_the_house
                        THEN [match EXCEPT !.position = term.position]
                        ELSE IF term.speaker_of_the_house
                        THEN [match EXCEPT !.speaker_of_the_house = TRUE]
                        ELSE match]

\* One iteration of the loop of _merge_terms on the dict `merged`.  `match`
\* is the stored record, or the incoming one when the parties differ; the
\* is_house_speaker property reads the flag, not the position text.
merge_step(merged, term) ==
    IF term.position \in {"vice president", "president"}
    THEN merged
    ELSE LET k == lookup_term(merged, term.congress_number)
         IN  IF k = 0
             THEN Append(merged, term)
             ELSE LET match == IF merged[k].party # term.party
                               THEN term
                               ELSE merged[k]
                  IN  [merged EXCEPT ![k] =
                        IF match.speaker_of_the_house
                        THEN [match EXCEPT !.position = term.position]
                        ELSE IF term.speaker_of_the_house
                        THEN [match EXCEPT !.speaker_of_the_house = TRUE]
                        ELSE match]

RECURSIVE merge_from(_, _, _)
merge_from(records, i, merged) ==
    IF i > Len(records)
    THEN merged
    ELSE merge_from(records, i + 1, merge_step(merged, records[i]))

\* _merge_terms as a function of the raw terms.
_merge_terms(records) == merge_from(records, 1, <<>>)

----------------------------------------------------------------------------
(* Text: a Python str is a sequence of one-character strings.              *)

\* A character outside printable ASCII is written "U+" and the four
\* hexadecimal digits of its code point, as is the grave accent, U+0060;
\* the tab, the line feed, the form feed and the carriage return keep
\* their escapes.  The tables below hold the characters of Latin-1 and,
\* of the rest of Unicode, the spaces, the Arabic-Indic digits and some
\* letters with their other case; a character outside the tables is one
\* without case that is neither a space, a digit nor a letter.

UpperChars ==
    <<"A", "B", "C", "D", "E", "F", "G", "H", "I", "J", "K", "L", "M",
      "N", "O", "P", "Q", "R", "S", "T", "U", "V", "W", "X", "Y", "Z">>
LowerChars ==
    <<"a", "b", "c", "d", "e", "f", "g", "h", "i", "j", "k", "l", "m",
      "n", "o", "p", "q", "r", "s", "t", "u", "v", "w", "x", "y", "z">>
DecimalDigits == <<"0", "1", "2", "3", "4", "5", "6", "7", "8", "9">>
DigitChars == {"0", "1", "2", "3", "4", "5", "6", "7", "8", "9"}

\* ord(c)
CodePoints ==
    "U+0000" :> 0 @@ "U+0001" :> 1 @@ "U+0002" :> 2 @@ "U+0003" :> 3 @@
    "U+0004" :> 4 @@ "U+0005" :> 5 @@ "U+0006" :> 6 @@ "U+0007" :> 7 @@
    "U+0008" :> 8 @@ "\t" :> 9 @@ "\n" :> 10 @@ "U+000B" :> 11 @@
    "\f" :> 12 @@ "\r" :> 13 @@ "U+000E" :> 14 @@ "U+000F" :> 15 @@
    "U+0010" :> 16 @@ "U+0011" :> 17 @@ "U+0012" :> 18 @@ "U+0013" :> 19 @@
    "U+0014" :> 20 @@ "U+0015" :> 21 @@ "U+0016" :> 22 @@ "U+0017" :> 23 @@
    "U+0018" :> 24 @@ "U+0019" :> 25 @@ "U+001A" :> 26 @@ "U+001B" :> 27 @@
    "U+001C" :> 28 @@ "U+001D" :> 29 @@ "U+001E" :> 30 @@ "U+001F" :> 31 @@
    " " :> 32 @@ "!" :> 33 @@ "\"" :> 34 @@ "#" :> 35 @@ "$" :> 36 @@
    "%" :> 37 @@ "&" :> 38 @@ "'" :> 39 @@ "(" :> 40 @@ ")" :> 41 @@
    "*" :> 42 @@ "+" :> 43 @@ "," :> 44 @@ "-" :> 45 @@ "." :> 46 @@
    "/" :> 47 @@ "0" :> 48 @@ "1" :> 49 @@ "2" :> 50 @@ "3" :> 51 @@
    "4" :> 52 @@ "5" :> 53 @@ "6" :> 54 @@ "7" :> 55 @@ "8" :> 56 @@
    "9" :> 57 @@ ":" :> 58 @@ ";" :> 59 @@ "<" :> 60 @@ "=" :> 61 @@
    ">" :> 62 @@ "?" :> 63 @@ "@" :> 64 @@ "A" :> 65 @@ "B" :> 66 @@
    "C" :> 67 @@ "D" :> 68 @@ "E" :> 69 @@ "F" :> 70 @@ "G" :> 71 @@
    "H" :> 72 @@ "I" :> 73 @@ "J" :> 74 @@ "K" :> 75 @@ "L" :> 76 @@
    "M" :> 77 @@ "N" :> 78 @@ "O" :> 79 @@ "P" :> 80 @@ "Q" :> 81 @@
    "R" :> 82 @@ "S" :> 83 @@ "T" :> 84 @@ "U" :> 85 @@ "V" :> 86 @@
    "W" :> 87 @@ "X" :> 88 @@ "Y" :> 89 @@ "Z" :> 90 @@ "[" :> 91 @@
    "\\" :> 92 @@ "]" :> 93 @@ "^" :> 94 @@ "_" :> 95 @@ "U+0060" :> 96 @@
    "a" :> 97 @@ "b" :> 98 @@ "c" :> 99 @@ "d" :> 100 @@ "e" :> 101 @@
    "f" :> 102 @@ "g" :> 103 @@ "h" :> 104 @@ "i" :> 105 @@ "j" :> 106 @@
    "k" :> 107 @@ "l" :> 108 @@ "m" :> 109 @@ "n" :> 110 @@ "o" :> 111 @@
    "p" :> 112 @@ "q" :> 113 @@ "r" :> 114 @@ "s" :> 115 @@ "t" :> 116 @@
    "u" :> 117 @@ "v" :> 118 @@ "w" :> 119 @@ "x" :> 120 @@ "y" :> 121 @@
    "z" :> 122 @@ "{" :> 123 @@ "|" :> 124 @@ "}" :> 125 @@ "~" :> 126 @@
    "U+007F" :> 127 @@ "U+0080" :> 128 @@ "U+0081" :> 129 @@
    "U+0082" :> 130 @@ "U+0083" :> 131 @@ "U+0084" :> 132 @@
    "U+0085" :> 133 @@ "U+0086" :> 134 @@ "U+0087" :> 135 @@
    "U+0088" :> 136 @@ "U+0089" :> 137 @@ "U+008A" :> 138 @@
    "U+008B" :> 139 @@ "U+008C" :> 140 @@ "U+008D" :> 141 @@
    "U+008E" :> 142 @@ "U+008F" :> 143 @@ "U+0090" :> 144 @@
    "U+0091" :> 145 @@ "U+0092" :> 146 @@ "U+0093" :> 147 @@
    "U+0094" :> 148 @@ "U+0095" :> 149 @@ "U+0096" :> 150 @@
    "U+0097" :> 151 @@ "U+0098" :> 152 @@ "U+0099" :> 153 @@
    "U+009A" :> 154 @@ "U+009B" :> 155 @@ "U+009C" :> 156 @@
    "U+009D" :> 157 @@ "U+009E" :> 158 @@ "U+009F" :> 159 @@
    "U+00A0" :> 160 @@ "U+00A1" :> 161 @@ "U+00A2" :> 162 @@
    "U+00A3" :> 163 @@ "U+00A4" :> 164 @@ "U+00A5" :> 165 @@
    "U+00A6" :> 166 @@ "U+00A7" :> 167 @@ "U+00A8" :> 168 @@
    "U+00A9" :> 169 @@ "U+00AA" :> 170 @@ "U+00AB" :> 171 @@
    "U+00AC" :> 172 @@ "U+00AD" :> 173 @@ "U+00AE" :> 174 @@
    "U+00AF" :> 175 @@ "U+00B0" :> 176 @@ "U+00B1" :> 177 @@
    "U+00B2" :> 178 @@ "U+00B3" :> 179 @@ "U+00B4" :> 180 @@
    "U+00B5" :> 181 @@ "U+00B6" :> 182 @@ "U+00B7" :> 183 @@
    "U+00B8" :> 184 @@ "U+00B9" :> 185 @@ "U+00BA" :> 186 @@
    "U+00BB" :> 187 @@ "U+00BC" :> 188 @@ "U+00BD" :> 189 @@
    "U+00BE" :> 190 @@ "U+00BF" :> 191 @@ "U+00C0" :> 192 @@
    "U+00C1" :> 193 @@ "U+00C2" :> 194 @@ "U+00C3" :> 195 @@
    "U+00C4" :> 196 @@ "U+00C5" :> 197 @@ "U+00C6" :> 198 @@
    "U+00C7" :> 199 @@ "U+00C8" :> 200 @@ "U+00C9" :> 201 @@
    "U+00CA" :> 202 @@ "U+00CB" :> 203 @@ "U+00CC" :> 204 @@
    "U+00CD" :> 205 @@ "U+00CE" :> 206 @@ "U+00CF" :> 207 @@
    "U+00D0" :> 208 @@ "U+00D1" :> 209 @@ "U+00D2" :> 210 @@
    "U+00D3" :> 211 @@ "U+00D4" :> 212 @@ "U+00D5" :> 213 @@
    "U+00D6" :> 214 @@ "U+00D7" :> 215 @@ "U+00D8" :> 216 @@
    "U+00D9" :> 217 @@ "U+00DA" :> 218 @@ "U+00DB" :> 219 @@
    "U+00DC" :> 220 @@ "U+00DD" :> 221 @@ "U+00DE" :> 222 @@
    "U+00DF" :> 223 @@ "U+00E0" :> 224 @@ "U+00E1" :> 225 @@
    "U+00E2" :> 226 @@ "U+00E3" :> 227 @@ "U+00E4" :> 228 @@
    "U+00E5" :> 229 @@ "U+00E6" :> 230 @@ "U+00E7" :> 231 @@
    "U+00E8" :> 232 @@ "U+00E9" :> 233 @@ "U+00EA" :> 234 @@
    "U+00EB" :> 235 @@ "U+00EC" :> 236 @@ "U+00ED" :> 237 @@
    "U+00EE" :> 238 @@ "U+00EF" :> 239 @@ "U+00F0" :> 240 @@
    "U+00F1" :> 241 @@ "U+00F2" :> 242 @@ "U+00F3" :> 243 @@
    "U+00F4" :> 244 @@ "U+00F5" :> 245 @@ "U+00F6" :> 246 @@
    "U+00F7" :> 247 @@ "U+00F8" :> 248 @@ "U+00F9" :> 249 @@
    "U+00FA" :> 250 @@ "U+00FB" :> 251 @@ "U+00FC" :> 252 @@
    "U+00FD" :> 253 @@ "U+00FE" :> 254 @@ "U+00FF" :> 255 @@
    "U+0100" :> 256 @@ "U+0101" :> 257 @@ "U+0130" :> 304 @@
    "U+0131" :> 305 @@ "U+0141" :> 321 @@ "U+0142" :> 322 @@
    "U+0160" :> 352 @@ "U+0161" :> 353 @@ "U+0178" :> 376 @@
    "U+017F" :> 383 @@ "U+0307" :> 775 @@ "U+039C" :> 924 @@
    "U+03BC" :> 956 @@ "U+0660" :> 1632 @@ "U+0661" :> 1633 @@
    "U+0662" :> 1634 @@ "U+0663" :> 1635 @@ "U+0664" :> 1636 @@
    "U+0665" :> 1637 @@ "U+0666" :> 1638 @@ "U+0667" :> 1639 @@
    "U+0668" :> 1640 @@ "U+0669" :> 1641 @@ "U+1680" :> 5760 @@
    "U+1E9E" :> 7838 @@ "U+2000" :> 8192 @@ "U+2001" :> 8193 @@
    "U+2002" :> 8194 @@ "U+2003" :> 8195 @@ "U+2004" :> 8196 @@
    "U+2005" :> 8197 @@ "U+2006" :> 8198 @@ "U+2007" :> 8199 @@
    "U+2008" :> 8200 @@ "U+2009" :> 8201 @@ "U+200A" :> 8202 @@
    "U+200B" :> 8203 @@ "U+2013" :> 8211 @@ "U+2019" :> 8217 @@
    "U+2028" :> 8232 @@ "U+2029" :> 8233 @@ "U+202F" :> 8239 @@
    "U+205F" :> 8287 @@ "U+3000" :> 12288

\* The characters that str.isspace() holds of, which are those that
\* str.strip() removes and that \s matches in a str pattern.
SpaceChars ==
    {"\t", "\n", "U+000B", "\f", "\r", "U+001C", "U+001D", "U+001E",
     "U+001F", " ", "U+0085", "U+00A0", "U+1680", "U+2000", "U+2001",
     "U+2002", "U+2003", "U+2004", "U+2005", "U+2006", "U+2007", "U+2008",
     "U+2009", "U+200A", "U+2028", "U+2029", "U+202F", "U+205F", "U+3000"}

\* The characters past ASCII that \w matches in a str pattern.
UnicodeWordChars ==
    {"U+00AA", "U+00B2", "U+00B3", "U+00B5", "U+00B9", "U+00BA", "U+00BC",
     "U+00BD", "U+00BE", "U+00C0", "U+00C1", "U+00C2", "U+00C3", "U+00C4",
     "U+00C5", "U+00C6", "U+00C7", "U+00C8", "U+00C9", "U+00CA", "U+00CB",
     "U+00CC", "U+00CD", "U+00CE", "U+00CF", "U+00D0", "U+00D1", "U+00D2",
     "U+00D3", "U+00D4", "U+00D5", "U+00D6", "U+00D8", "U+00D9", "U+00DA",
     "U+00DB", "U+00DC", "U+00DD", "U+00DE", "U+00DF", "U+00E0", "U+00E1",
     "U+00E2", "U+00E3", "U+00E4", "U+00E5", "U+00E6", "U+00E7", "U+00E8",
     "U+00E9", "U+00EA", "U+00EB", "U+00EC", "U+00ED", "U+00EE", "U+00EF",
     "U+00F0", "U+00F1", "U+00F2", "U+00F3", "U+00F4", "U+00F5", "U+00F6",
     "U+00F8", "U+00F9", "U+00FA", "U+00FB", "U+00FC", "U+00FD", "U+00FE",
     "U+00FF", "U+0100", "U+0101", "U+0130", "U+0131", "U+0141", "U+0142",
     "U+0160", "U+0161", "U+0178", "U+017F", "U+039C", "U+03BC", "U+0660",
     "U+0661", "U+0662", "U+0663", "U+0664", "U+0665", "U+0666", "U+0667",
     "U+0668", "U+0669", "U+1E9E"}

\* c.lower() and c.upper() of the characters past ASCII that have one: a
\* str, since the other case of a character may take two.
UnicodeLower ==
    "U+00C0" :> <<"U+00E0">> @@ "U+00C1" :> <<"U+00E1">> @@
    "U+00C2" :> <<"U+00E2">> @@ "U+00C3" :> <<"U+00E3">> @@
    "U+00C4" :> <<"U+00E4">> @@ "U+00C5" :> <<"U+00E5">> @@
    "U+00C6" :> <<"U+00E6">> @@ "U+00C7" :> <<"U+00E7">> @@
    "U+00C8" :> <<"U+00E8">> @@ "U+00C9" :> <<"U+00E9">> @@
    "U+00CA" :> <<"U+00EA">> @@ "U+00CB" :> <<"U+00EB">> @@
    "U+00CC" :> <<"U+00EC">> @@ "U+00CD" :> <<"U+00ED">> @@
    "U+00CE" :> <<"U+00EE">> @@ "U+00CF" :> <<"U+00EF">> @@
    "U+00D0" :> <<"U+00F0">> @@ "U+00D1" :> <<"U+00F1">> @@
    "U+00D2" :> <<"U+00F2">> @@ "U+00D3" :> <<"U+00F3">> @@
    "U+00D4" :> <<"U+00F4">> @@ "U+00D5" :> <<"U+00F5">> @@
    "U+00D6" :> <<"U+00F6">> @@ "U+00D8" :> <<"U+00F8">> @@
    "U+00D9" :> <<"U+00F9">> @@ "U+00DA" :> <<"U+00FA">> @@
    "U+00DB" :> <<"U+00FB">> @@ "U+00DC" :> <<"U+00FC">> @@
    "U+00DD" :> <<"U+00FD">> @@ "U+00DE" :> <<"U+00FE">> @@
    "U+0100" :> <<"U+0101">> @@ "U+0130" :> <<"i", "U+0307">> @@
    "U+0141" :> <<"U+0142">> @@ "U+0160" :> <<"U+0161">> @@
    "U+0178" :> <<"U+00FF">> @@ "U+039C" :> <<"U+03BC">> @@
    "U+1E9E" :> <<"U+00DF">>

UnicodeUpper ==
    "U+00B5" :> <<"U+039C">> @@ "U+00DF" :> <<"S", "S">> @@
    "U+00E0" :> <<"U+00C0">> @@ "U+00E1" :> <<"U+00C1">> @@
    "U+00E2" :> <<"U+00C2">> @@ "U+00E3" :> <<"U+00C3">> @@
    "U+00E4" :> <<"U+00C4">> @@ "U+00E5" :> <<"U+00C5">> @@
    "U+00E6" :> <<"U+00C6">> @@ "U+00E7" :> <<"U+00C7">> @@
    "U+00E8" :> <<"U+00C8">> @@ "U+00E9" :> <<"U+00C9">> @@
    "U+00EA" :> <<"U+00CA">> @@ "U+00EB" :> <<"U+00CB">> @@
    "U+00EC" :> <<"U+00CC">> @@ "U+00ED" :> <<"U+00CD">> @@
    "U+00EE" :> <<"U+00CE">> @@ "U+00EF" :> <<"U+00CF">> @@
    "U+00F0" :> <<"U+00D0">> @@ "U+00F1" :> <<"U+00D1">> @@
    "U+00F2" :> <<"U+00D2">> @@ "U+00F3" :> <<"U+00D3">> @@
    "U+00F4" :> <<"U+00D4">> @@ "U+00F5" :> <<"U+00D5">> @@
    "U+00F6" :> <<"U+00D6">> @@ "U+00F8" :> <<"U+00D8">> @@
    "U+00F9" :> <<"U+00D9">> @@ "U+00FA" :> <<"U+00DA">> @@
    "U+00FB" :> <<"U+00DB">> @@ "U+00FC" :> <<"U+00DC">> @@
    "U+00FD" :> <<"U+00DD">> @@ "U+00FE" :> <<"U+00DE">> @@
    "U+00FF" :> <<"U+0178">> @@ "U+0101" :> <<"U+0100">> @@
    "U+0131" :> <<"I">> @@ "U+0142" :> <<"U+0141">> @@
    "U+0161" :> <<"U+0160">> @@ "U+017F" :> <<"S">> @@
    "U+03BC" :> <<"U+039C">>

\* int(c) of the decimal digits past ASCII.
UnicodeDigits ==
    "U+0660" :> 0 @@ "U+0661" :> 1 @@ "U+0662" :> 2 @@ "U+0663" :> 3 @@
    "U+0664" :> 4 @@ "U+0665" :> 5 @@ "U+0666" :> 6 @@ "U+0667" :> 7 @@
    "U+0668" :> 8 @@ "U+0669" :> 9

\* The regular-expression classes [A-Z], [a-z] and \w.
is_upper(c) == \E i \in 1..Len(UpperChars) : UpperChars[i] = c
is_lower(c) == \E i \in 1..Len(LowerChars) : LowerChars[i] = c
is_word(c) ==
    \/ is_upper(c)
    \/ is_lower(c)
    \/ c \in DigitChars
    \/ c = "_"
    \/ c \in UnicodeWordChars

\* c.lower() of one character
char_lower(c) ==
    IF is_upper(c)
    THEN <<LowerChars[CHOOSE i \in 1..Len(UpperChars) : UpperChars[i] = c]>>
    ELSE IF c \in DOMAIN UnicodeLower
    THEN UnicodeLower[c]
    ELSE <<c>>

\* c.upper() of one character
char_upper(c) ==
    IF is_lower(c)
    THEN <<UpperChars[CHOOSE i \in 1..Len(LowerChars) : LowerChars[i] = c]>>
    ELSE IF c \in DOMAIN UnicodeUpper
    THEN UnicodeUpper[c]
    ELSE <<c>>

\* str.upper()
str_upper[text \in Seq(STRING)] ==
    IF text = <<>>
    THEN <<>>
    ELSE char_upper(Head(text)) \o str_upper[Tail(text)]

\* str.lower()
str_lower[text \in Seq(STRING)] ==
    IF text = <<>>
    THEN <<>>
    ELSE char_lower(Head(text)) \o str_lower[Tail(text)]

\* text[i] of the 1-based index i, "" past either end.
char_at(text, i) == IF i \in 1..Len(text) THEN text[i] ELSE ""

\* The characters of the 1-based indexes first..last that the text has: a
\* Python slice, which stops at the ends of the text.
str_slice[text \in Seq(STRING), first \in Int, last \in Int] ==
    IF first < 1
    THEN str_slice[text, 1, last]
    ELSE IF last > Len(text)
    THEN str_slice[text, first, Len(text)]
    ELSE IF last < first
    THEN <<>>
    ELSE [i \in 1..(last - first + 1) |-> text[first + i - 1]]

\* str.strip()
str_strip[text \in Seq(STRING)] ==
    IF \A i \in 1..Len(text) : text[i] \in SpaceChars
    THEN <<>>
    ELSE str_slice[text,
                   py_min({i \in 1..Len(text) : text[i] \notin SpaceChars}),
                   py_max({i \in 1..Len(text) : text[i] \notin SpaceChars})]

\* Mutant: every character after the first is lower-cased.
fix_last_name_casing_no_prefix(name) ==
    str_slice[name, 1, 1] \o str_lower[str_slice[name, 2, Len(name)]]

\* Text.fix_last_name_casing: name[:start_pos] + name[start_pos:].lower()
fix_last_name_casing(name) ==
    LET start_pos ==
            IF /\ is_upper(char_at(name, 1))
               /\ is_lower(char_at(name, 2))
               /\ is_upper(char_at(name, 3))
            THEN 3
            ELSE 1
    IN  str_slice[name, 1, start_pos]
            \o str_lower[str_slice[name, start_pos + 1, Len(name)]]

\* The length of the match of (Jr\.?|Sr\.?|IV|I{1,3}) at index i, 0 for none.
suffix_token_len(text, i) ==
    IF char_at(text, i) \in {"J", "S"} /\ char_at(text, i + 1) = "r"
    THEN IF char_at(text, i + 2) = "." THEN 3 ELSE 2
    ELSE IF char_at(text, i) = "I" /\ char_at(text, i + 1) = "V"
    THEN 2
    ELSE IF char_at(text, i) # "I"
    THEN 0
    ELSE IF char_at(text, i + 1) # "I"
    THEN 1
    ELSE IF char_at(text, i + 2) # "I"
    THEN 2
    ELSE 3

\* The match of suffix_pattern, ',? (Jr\.?|Sr\.?|IV|I{1,3})', that starts at
\* index i: [len, group] with len = 0 when there is none.
suffix_match_at(text, i) ==
    LET lead ==
            IF char_at(text, i) = "," /\ char_at(text, i + 1) = " "
            THEN 2
            ELSE IF char_at(text, i) = " "
            THEN 1
            ELSE 0
        token == IF lead = 0 THEN 0 ELSE suffix_token_len(text, i + lead)
    IN  IF token = 0
        THEN [len |-> 0, group |-> <<>>]
        ELSE [len |-> lead + token,
              group |-> str_slice[text, i + lead, i + lead + token - 1]]

\* The length of the longest run of [\w\. ] that starts at index i.
RECURSIVE nickname_run(_, _)
nickname_run(text, i) ==
    IF is_word(char_at(text, i)) \/ char_at(text, i) \in {".", " "}
    THEN 1 + nickname_run(text, i + 1)
    ELSE 0

\* The match of nickname_pattern, ' \(([\w\. ]+)\)', that starts at index i.
nickname_match_at(text, i) ==
    LET run == nickname_run(text, i + 2)
    IN  IF /\ char_at(text, i) = " "
           /\ char_at(text, i + 1) = "("
           /\ run > 0
           /\ char_at(text, i + 2 + run) = ")"
        THEN [len |-> run + 3, group |-> str_slice[text, i + 2, i + 1 + run]]
        ELSE [len |-> 0, group |-> <<>>]

\* The two patterns of BioguideMemberRecord.__init__.
suffix_pattern == "suffix_pattern"
nickname_pattern == "nickname_pattern"
Patterns == {suffix_pattern, nickname_pattern}

match_at(pattern, text, i) ==
    IF pattern = suffix_pattern
    THEN suffix_match_at(text, i)
    ELSE nickname_match_at(text, i)

\* re.search: the leftmost match, ok = FALSE when the pattern matches nowhere.
re_search[pattern \in Patterns, text \in Seq(STRING)] ==
    LET starts == {i \in 1..Len(text) : match_at(pattern, text, i).len > 0}
    IN  IF starts = {}
        THEN [ok |-> FALSE, group |-> <<>>]
        ELSE [ok |-> TRUE, group |-> match_at(pattern, text, py_min(starts)).group]

\* re.sub(pattern, '', text): every match, left to right, is removed.
re_sub[pattern \in Patterns, text \in Seq(STRING)] ==
    LET rest[i \in 1..(Len(text) + 1)] ==
            IF i > Len(text)
            THEN <<>>
            ELSE IF match_at(pattern, text, i).len > 0
            THEN rest[i + match_at(pattern, text, i).len]
            ELSE <<text[i]>> \o rest[i + 1]
    IN  rest[1]

\* A str field that holds None.
NoneStr == <<"None">>

\* BioguideMemberRecord.__init__, the name fields: the suffix is cut from the
\* stripped first names, then the nickname from what is left.
extract_first_name(firstnames) ==
    LET stripped == str_strip[firstnames]
        suffix_match == re_search[suffix_pattern, stripped]
        without_suffix ==
            IF suffix_match.ok
            THEN re_sub[suffix_pattern, stripped]
            ELSE stripped
        nickname_match == re_search[nickname_pattern, without_suffix]
    IN  [suffix |-> IF suffix_match.ok THEN suffix_match.group ELSE NoneStr,
         nickname |->
            IF nickname_match.ok THEN nickname_match.group ELSE NoneStr,
         first_name |->
            IF nickname_match.ok
            THEN re_sub[nickname_pattern, without_suffix]
            ELSE without_suffix]

----------------------------------------------------------------------------
(* Person records and CongressMember: bioguideretro.py and duo.py          *)

MAX_REQUEST_ATTEMPTS == 3

\* A member record that is None.
NoneRecord ==
    [bioguide_id |-> NoneStr, first_name |-> NoneStr, last_name |-> NoneStr,
     nickname |-> NoneStr, suffix |-> NoneStr, terms |-> <<>>]

\* bool(x) of a str or None.
truthy(x) == x # <<>> /\ x # NoneStr

\* BioguideMemberRecord.__init__ on a parsed document: the id attribute, the
\* name fields and the merged terms.  The text of an empty element is None,
\* and None.strip() raises AttributeError.  xml_data.terms is the list
\* term_records that the loop over the term elements builds.
BioguideMemberRecord(xml_data) ==
    IF xml_data.lastname = NoneStr \/ xml_data.firstnames = NoneStr
    THEN Raise("AttributeError")
    ELSE Ok([bioguide_id |-> xml_data.id,
             last_name |->
                fix_last_name_casing(str_strip[xml_data.lastname]),
             terms |-> _merge_terms(xml_data.terms)]
            @@ extract_first_name(xml_data.firstnames))

\* The identifier of the member specification's one document.
DocumentId == <<"W", "1">>

\* The characters that the negated class of Text.clean_xml lets through:
\* the letters and digits of ASCII, what \s matches and the punctuation it
\* lists.
CleanXmlPunctuation ==
    {"'", "~", "!", "@", "#", "$", "%", "^", "&", "*", "(", ")", "_", "+",
     "=", ":", "{", "}", "[", ";", "<", ",", ">", ".", "?", "/", "\\", "-",
     "]", "\"", "U+0060"}
clean_xml_keeps(c) ==
    \/ is_upper(c)
    \/ is_lower(c)
    \/ c \in DigitChars
    \/ c \in SpaceChars
    \/ c \in CleanXmlPunctuation

\* re.sub(invalid_char, '', text) on the text of one element.  "U+0001" is
\* the control character of that code point.
clean_text[text \in Seq(STRING)] ==
    IF text = <<>>
    THEN <<>>
    ELSE (IF clean_xml_keeps(Head(text)) THEN <<Head(text)>> ELSE <<>>)
           \o clean_text[Tail(text)]

\* Text.clean_xml on the text of a response: every character outside the
\* class is removed, in the name elements as everywhere else; markup that
\* does not nest stays as it is.  An element that the cleaning leaves with
\* no character is an empty element, whose text is None.
clean_xml(text) ==
    [text EXCEPT
        !.firstnames = IF @ = NoneStr \/ clean_text[@] = <<>>
                       THEN NoneStr
                       ELSE clean_text[@],
        !.lastname = IF @ = NoneStr \/ clean_text[@] = <<>>
                     THEN NoneStr
                     ELSE clean_text[@]]

\* The characters that XML 1.0 forbids, of those in the tables: the control
\* characters other than the tab, the line feed and the carriage return.
XmlInvalidChars ==
    {"U+0000", "U+0001", "U+0002", "U+0003", "U+0004", "U+0005", "U+0006",
     "U+0007", "U+0008", "U+000B", "\f", "U+000E", "U+000F", "U+0010",
     "U+0011", "U+0012", "U+0013", "U+0014", "U+0015", "U+0016", "U+0017",
     "U+0018", "U+0019", "U+001A", "U+001B", "U+001C", "U+001D", "U+001E",
     "U+001F"}
has_invalid_char(chars) ==
    chars # NoneStr /\ \E i \in 1..Len(chars) : chars[i] \in XmlInvalidChars

\* xml.etree.ElementTree.fromstring: ParseError for markup that does not
\* nest and for a forbidden character, else the parsed document.
fromstring(text) ==
    IF \/ text.xml = "malformed"
       \/ has_invalid_char(text.firstnames)
       \/ has_invalid_char(text.lastname)
    THEN Raise("ParseError")
    ELSE Ok(text)

\* The page that the registry answers with for an identifier it does not
\* hold: it is not XML.
NotXmlPage ==
    [id |-> <<>>, firstnames |-> NoneStr, lastname |-> NoneStr,
     terms |-> <<>>, xml |-> "malformed"]

\* response.text of the GET of a member document.
response_text(bioguide_id) ==
    IF bioguide_id \in DOMAIN registry
    THEN registry[bioguide_id]
    ELSE NotXmlPage

\* The try block with a handler that parses the downloaded text once more
\* as it is, without cleaning it.
parse_member_record_uncleaned(text) ==
    LET xml_root == fromstring(text)
    IN  IF xml_root.exc = "none"
        THEN BioguideMemberRecord(xml_root.val)
        ELSE Raise("ParseError")

\* The try block of _query_member_by_id after the GET: the text is parsed;
\* the handler of ParseError cleans the text and parses it once more, and
\* an exception out of the handler leaves the function.
parse_member_record(text) ==
    LET xml_root == fromstring(text)
    IN  IF xml_root.exc = "none"
        THEN BioguideMemberRecord(xml_root.val)
        ELSE LET clean_root == fromstring(clean_xml(text))
             IN  IF clean_root.exc = "none"
                 THEN BioguideMemberRecord(clean_root.val)
                 ELSE Raise("ParseError")

\* _query_member_by_id: `failures` requests in a row end in a connection
\* error before one is answered.  bioguide_id[0] of an empty identifier
\* raises IndexError; a text that does not parse is cleaned and parsed once
\* more.
_query_member_by_id(bioguide_id, failures) ==
    IF bioguide_id = <<>>
    THEN Raise("IndexError")
    ELSE IF failures > MAX_REQUEST_ATTEMPTS
    THEN Raise("BioguideConnectionError")
    ELSE parse_member_record(response_text(bioguide_id))

\* A GovInfo payload that is None.
NoneGovInfo == [none |-> TRUE, has_members |-> FALSE, members |-> <<>>]

\* A GovInfo payload, the dict of one directory entry: whether it has the
\* key 'members', and the list under that key.
govinfo_entry(has_members, members) ==
    [none |-> FALSE, has_members |-> has_members, members |-> members]

\* One dict of a 'members' list: the keys it has and the value of
\* 'bioGuideId'.
granule_member(keys, bioguide_id) == [keys |-> keys, bioGuideId |-> bioguide_id]

\* CongressMember.__init__ up to the call of load(), without a GovInfo key.
new_member(bioguide_id) ==
    [_bg |-> NoneRecord,
     _gi |-> NoneGovInfo,
     complete_govinfo |-> TRUE,
     _bg_id |-> IF bioguide_id = NoneStr THEN NoneStr ELSE str_upper[bioguide_id],
     _load_member_bg |->
        IF bioguide_id = NoneStr THEN NoneStr ELSE str_upper[bioguide_id]]

\* CongressMember._load_bioguide: the loaded record is assigned to _bg.
load_bioguide(m, failures) ==
    IF m._load_member_bg = NoneStr
    THEN [exc |-> "none", member |-> m]
    ELSE LET loaded == _query_member_by_id(m._load_member_bg, failures)
         IN  IF loaded.exc # "none"
             THEN [exc |-> loaded.exc, member |-> m]
             ELSE [exc |-> "none", member |-> [m EXCEPT !._bg = loaded.val]]

\* CongressMember.bioguide (setter)
set_bioguide(m, new_bioguide) ==
    LET valid_bioguide ==
            /\ truthy(new_bioguide.bioguide_id)
            /\ truthy(new_bioguide.first_name)
            /\ truthy(new_bioguide.last_name)
            /\ Len(new_bioguide.terms) > 0
    IN  IF valid_bioguide
        THEN [exc |-> "none",
              member |-> [m EXCEPT !._bg = new_bioguide,
                                   !._bg_id = new_bioguide.bioguide_id]]
        ELSE [exc |-> "InvalidBioguideError", member |-> m]

----------------------------------------------------------------------------
(* Congress records and the worker pool of _query_members_by_id.           *)

\* str.split(sep)[1]: what stands between the first separator and the next
\* one (or the end); IndexError when there is no separator.
str_split_second[chars \in Seq(STRING), sep \in STRING] ==
    LET seps == {i \in 1..Len(chars) : chars[i] = sep}
    IN  IF seps = {}
        THEN Raise("IndexError")
        ELSE LET first == py_min(seps)
                 later == {i \in seps : i > first}
                 stop == IF later = {} THEN Len(chars) + 1 ELSE py_min(later)
             IN  Ok(SubSeq(chars, first + 1, stop - 1))

split_second(chars, sep) == str_split_second[chars, sep]

\* int(c) of a decimal digit.
digit_value(c) ==
    IF c \in DOMAIN UnicodeDigits
    THEN UnicodeDigits[c]
    ELSE (CHOOSE v \in 0..9 : DecimalDigits[v + 1] = c)

is_digit(c) == c \in DigitChars \/ c \in DOMAIN UnicodeDigits

\* The value of a string of decimal digits with the underscores left out.
RECURSIVE digits_value(_)
digits_value(chars) ==
    IF chars = <<>>
    THEN 0
    ELSE IF chars[Len(chars)] = "_"
    THEN digits_value(SubSeq(chars, 1, Len(chars) - 1))
    ELSE 10 * digits_value(SubSeq(chars, 1, Len(chars) - 1))
            + digit_value(chars[Len(chars)])

\* int(str): the white space around the literal is skipped, which is the
\* white space of str.strip() but for the separators U+001C to U+001F; the
\* literal is an optional sign and decimal digits, with single underscores
\* between digits; ValueError for anything else.
str_int[chars \in Seq(STRING)] ==
    LET skipped == SpaceChars \ {"U+001C", "U+001D", "U+001E", "U+001F"}
        kept == {i \in 1..Len(chars) : chars[i] \notin skipped}
        stripped ==
            IF kept = {}
            THEN <<>>
            ELSE str_slice[chars, py_min(kept), py_max(kept)]
        signed == stripped # <<>> /\ stripped[1] \in {"+", "-"}
        body == IF signed THEN Tail(stripped) ELSE stripped
        well_formed ==
            /\ body # <<>>
            /\ \A i \in 1..Len(body) : is_digit(body[i]) \/ body[i] = "_"
            /\ is_digit(body[1])
            /\ is_digit(body[Len(body)])
            /\ \A i \in 1..(Len(body) - 1) : body[i] # "_" \/ body[i + 1] # "_"
    IN  IF ~well_formed
        THEN Raise("ValueError")
        ELSE IF stripped[1] = "-"
        THEN Ok(0 - digits_value(body))
        ELSE Ok(digits_value(body))

py_int(chars) == str_int[chars]

\* An a.page-link element: its text and its href; NoLink is the None that
\* select_one returns when nothing matches.
page_link(text, href) == [text |-> text, href |-> href]
NoLink == page_link("None", <<>>)

\* The href of the link to page n of the results.
page_href(n) ==
    <<"/", "S", "e", "a", "r", "c", "h", "?", "p", "a", "g", "e", "=">>
        \o <<DecimalDigits[n + 1]>>

\* The pagination control of a result page: the link of the skipToLast
\* item and the links of all the page items, in document order.  A page
\* without the control has neither.
NoPagination == [skip_to_last |-> NoLink, page_links |-> <<>>]

\* _get_final_page_number on the pagination control of the response text:
\* the skipToLast link, else the last page link, or the one before it when
\* the last one is the link to the next page; the page number is parsed
\* from the query string of the href.  Without any link the number is
\* `single_page`.
final_page_number(pagination, single_page) ==
    LET page_links == pagination.page_links
        last_link == page_links[Len(page_links)]
        final_page_link ==
            IF pagination.skip_to_last # NoLink
            THEN Ok(pagination.skip_to_last)
            ELSE IF Len(page_links) = 0
            THEN Ok(NoLink)
            ELSE IF last_link.text \notin {">", "&gt;"}
            THEN Ok(last_link)
            ELSE IF Len(page_links) < 2
            THEN Raise("IndexError")
            ELSE Ok(page_links[Len(page_links) - 1])
    IN  IF final_page_link.exc # "none"
        THEN final_page_link
        ELSE IF final_page_link.val = NoLink
        THEN Ok(single_page)
        ELSE LET query_string == split_second(final_page_link.val.href, "?")
             IN  IF query_string.exc # "none"
                 THEN query_string
                 ELSE IF split_second(query_string.val, "=").exc # "none"
                 THEN split_second(query_string.val, "=")
                 ELSE py_int(split_second(query_string.val, "=").val)

\* Mutant: a page without pagination links counts as no page.
_get_final_page_number_zero(pagination) == final_page_number(pagination, 0)

\* _get_final_page_number: "default to one for single-page results".
_get_final_page_number(pagination) == final_page_number(pagination, 1)

\* The control that the first page of `pages` carries when the site pages
\* its results in the usual way: none for a single page, and else the page
\* links, the link to the next page and the skipToLast link.
pagination_of(pages) ==
    IF Len(pages) <= 1
    THEN NoPagination
    ELSE [skip_to_last |-> page_link(">>", page_href(Len(pages))),
          page_links |->
             [i \in 1..(Len(pages) - 1) |->
                 page_link(<<"2", "3", "4", "5", "6", "7", "8", "9">>[i],
                           page_href(i + 1))]
               \o <<page_link(">", page_href(2)),
                    page_link(">>", page_href(Len(pages)))>>]

\* final_page_num of _scrape_bioguide_ids for such a site.
final_page_num_of(pages) == _get_final_page_number(pagination_of(pages)).val

\* _scrape_bioguide_ids when no request fails: the identifiers of page 1 to
\* the final page, each page's list added to the end of bioguide_ids.
RECURSIVE scrape_from(_, _)
scrape_from(pages, n) ==
    IF n > final_page_num_of(pages)
    THEN <<>>
    ELSE pages[n] \o scrape_from(pages, n + 1)

_scrape_bioguide_ids(pages) == scrape_from(pages, 1)

\* ord(c)
char_ord(c) == CodePoints[c]

\* a < b of two str: a is a proper prefix of b, or is smaller where they
\* first differ.
str_lt(a, b) ==
    \E i \in 1..Len(b) :
        /\ i <= Len(a) + 1
        /\ \A j \in 1..(i - 1) : a[j] = b[j]
        /\ \/ i = Len(a) + 1
           \/ char_ord(a[i]) < char_ord(b[i])

\* PriorityQueue(maxsize): the identifiers waiting, smallest first (one
\* entry per put, so an identifier put twice waits twice), the 0 sentinels
\* waiting and the count of tasks not yet marked done.
empty_queue == [ids |-> <<>>, zeros |-> 0, unfinished_tasks |-> 0]

qsize(queue) == Len(queue.ids) + queue.zeros

\* The smallest identifier waiting: what q.get() returns while there is one.
queue_min(queue) == Head(queue.ids)

\* The entries after q.put(bioguide_id): the identifier goes behind the
\* entries that are not larger.
queue_put(ids, bioguide_id) ==
    LET k == Cardinality({i \in 1..Len(ids) : ~str_lt(bioguide_id, ids[i])})
    IN  SubSeq(ids, 1, k) \o <<bioguide_id>> \o SubSeq(ids, k + 1, Len(ids))

\* BioguideTermRecord.__eq__
term_eq(t, o) ==
    /\ t.congress_number = o.congress_number
    /\ t.term_start = o.term_start
    /\ t.term_end = o.term_end
    /\ t.position = o.position
    /\ t.state = o.state
    /\ t.party = o.party

\* BioguideMemberRecord.__eq__
member_eq(r, o) ==
    /\ r.bioguide_id = o.bioguide_id
    /\ Len(r.terms) = Len(o.terms)
    /\ \A i \in 1..Len(r.terms) : term_eq(r.terms[i], o.terms[i])

\* The entries of the table whose interval holds the year
\* (years[1] >= year >= years[0]).
year_range_hits(year) ==
    {n \in DOMAIN _NUMBER_YEAR_MAPPING :
        _NUMBER_YEAR_MAPPING[n][2] >= year /\ year >= _NUMBER_YEAR_MAPPING[n][1]}

\* Mutant: the table is scanned in its own order, so the first hit is the
\* one entered first.
get_year_range_in_table_order(year) ==
    IF year_range_hits(year) = {}
    THEN None
    ELSE Some(_NUMBER_YEAR_MAPPING[
             CHOOSE n \in year_range_hits(year) :
                 \A k \in year_range_hits(year) : n <= k])

\* get_year_range_by_year: reversed(_NUMBER_YEAR_MAPPING.values()) is scanned
\* and the first interval that holds the year is returned, which is the hit
\* entered last in the table (the table is written in the order of the
\* numbers); None when the scan ends without a hit.
get_year_range_by_year(year) ==
    IF year_range_hits(year) = {}
    THEN None
    ELSE Some(_NUMBER_YEAR_MAPPING[
             CHOOSE n \in year_range_hits(year) :
                 \A k \in year_range_hits(year) : k <= n])

\* BioguideCongressRecord.__init__
BioguideCongressRecord(congress_number, members) ==
    IF congress_number >= first_valid_year
    THEN [number |-> py_max(get_congress_numbers(congress_number)),
          start_year |-> get_year_range_by_year(congress_number).val[1],
          end_year |-> get_year_range_by_year(congress_number).val[2],
          members |-> members]
    ELSE [number |-> congress_number,
          start_year |-> _NUMBER_YEAR_MAPPING[congress_number][1],
          end_year |-> _NUMBER_YEAR_MAPPING[congress_number][2],
          members |-> members]

\* The outcome of the constructor: max() of no congress is a ValueError
\* (raised before None is subscripted), get_start_year of a number the table
\* lacks a KeyError.
BioguideCongressRecord_init(congress_number, members) ==
    IF congress_number >= first_valid_year
    THEN IF get_congress_numbers(congress_number) = {}
         THEN Raise("ValueError")
         ELSE Ok(BioguideCongressRecord(congress_number, members))
    ELSE IF get_start_year(congress_number).exc # "none"
         THEN get_start_year(congress_number)
         ELSE Ok(BioguideCongressRecord(congress_number, members))

\* The two records hold the same number and the same members, in any order.
congress_eq_unordered(r, o) ==
    /\ r.number = o.number
    /\ Len(r.members) = Len(o.members)
    /\ \A i \in 1..Len(r.members) :
          \E j \in 1..Len(o.members) : member_eq(r.members[i], o.members[j])

\* BioguideCongressRecord.__eq__: the number and the member lists, element
\* by element in list order.
congress_eq(r, o) ==
    /\ r.number = o.number
    /\ Len(r.members) = Len(o.members)
    /\ \A i \in 1..Len(r.members) : member_eq(r.members[i], o.members[i])

----------------------------------------------------------------------------
(* Bounds of the calendar specification.                                   *)

\* now is one of the first MaxDay days or the last day of one of the first
\* MaxMonth months, or the last day of the year.
MaxMonth == 2
MaxDay == 3
\* now.year is one of the NearYears years from the first year of
\* CURRENT_CONGRESS on, or a year from the one before the calendar's last
\* year to YearMargin years past it.
NearYears == 8
YearMargin == 1
\* Arguments range over -ArgMargin .. LastCongress + ArgMargin and over the
\* calendar's years with ArgMargin years around them.
ArgMargin == 2

LastYear == _NUMBER_YEAR_MAPPING[LastCongress][2]

NowYears ==
    (_NUMBER_YEAR_MAPPING[CURRENT_CONGRESS][1]
        ..(_NUMBER_YEAR_MAPPING[CURRENT_CONGRESS][1] + NearYears - 1))
      \cup ((LastYear - 1)..(LastYear + YearMargin))

Dates ==
    UNION {UNION {{[year |-> year, month |-> month, day |-> day] :
                      day \in (1..MaxDay) \cup {days_in_month(year, month)}} :
                  month \in 1..MaxMonth}
             \cup {[year |-> year, month |-> 12, day |-> 31]} :
           year \in NowYears}

IntArgs ==
    ((0 - ArgMargin)..(LastCongress + ArgMargin))
        \cup ((first_valid_year - ArgMargin)..(LastYear + ArgMargin))

----------------------------------------------------------------------------
(* The calendar specification: a date, then one call of a util function.   *)

\* No date has been read, no util function has been called.
CalIdle ==
    /\ now = [year |-> 0, month |-> 0, day |-> 0]
    /\ clock = <<>>
    /\ op = "none"
    /\ arg = None
    /\ ret = Ok(0)

\* _merge_terms is not running.
MergeIdle ==
    /\ raw_terms = <<>>
    /\ term_records = <<>>
    /\ idx = 0
    /\ merged_terms = <<>>
    /\ merged_objects = <<>>
    /\ mpc = "idle"

\* No CongressMember exists.
MemberIdle ==
    /\ registry = <<>>
    /\ member = new_member(NoneStr)
    /\ mop = "none"
    /\ mexc = "none"

\* No Congress is being loaded.
RosterIdle ==
    /\ roster_args = <<>>
    /\ results = <<>>
    /\ _number = 0
    /\ main_pc = "idle"
    /\ put_idx = 0
    /\ q = empty_queue
    /\ threading = FALSE
    /\ workers = <<>>
    /\ member_records = <<>>

\* Text.fix_last_name_casing has not been called.
TextIdle ==
    /\ last_name = <<>>
    /\ fixed_last_name = None

\* No option validator has been called.
OptionIdle ==
    /\ validator = "none"
    /\ value = None
    /\ valid = FALSE

\* _query_members has not been called.
SearchIdle ==
    /\ search_args = <<>>
    /\ site = <<>>
    /\ spc = "idle"
    /\ attempts = [send |-> 0, page |-> 0, doc |-> 0]
    /\ issued = [send |-> 0, page |-> 0, doc |-> 0]
    /\ requested = {}
    /\ send_return = "none"
    /\ page_num = 0
    /\ scraped_ids = <<>>
    /\ doc_idx = 0
    /\ search_records = <<>>
    /\ search_exc = [exc |-> "none", at |-> "none"]

\* No Congress object exists.
DuoIdle ==
    /\ congress_args = <<>>
    /\ directory = <<>>
    /\ congress_object = <<>>
    /\ cpc = "none"
    /\ members_ret = Ok(<<>>)

\* _query_member_by_id has not been called on its own.
FetchIdle == fetch = <<>>

\* _query_bioguide_by_number has not been called on its own.
CrawlIdle == crawl = <<>>

ExtIdle ==
    /\ TextIdle
    /\ OptionIdle
    /\ SearchIdle
    /\ DuoIdle
    /\ FetchIdle
    /\ CrawlIdle

CalInit ==
    /\ ExtIdle
    /\ now \in Dates
    /\ clock = <<>>
    /\ op = "none"
    /\ arg = None
    /\ ret = Ok(0)
    /\ MergeIdle
    /\ MemberIdle
    /\ RosterIdle

CallConvert ==
    /\ op = "none"
    /\ \E a \in {None} \cup {Some(v) : v \in IntArgs}, reads \in clock_reads(4) :
         /\ op' = "convert_to_congress_number"
         /\ arg' = a
         /\ ret' = convert_to_congress_number(a, reads)
         /\ clock' = SubSeq(reads, 1, convert_clock_reads(a, reads))
         /\ UNCHANGED <<now, mergevars, membervars, rostervars, extvars>>

CallCurrent ==
    /\ op = "none"
    /\ \E reads \in clock_reads(3) :
         /\ op' = "get_current_congress_number"
         /\ arg' = None
         /\ ret' = get_current_congress_number(reads)
         /\ clock' = reads
         /\ UNCHANGED <<now, mergevars, membervars, rostervars, extvars>>

CallStartYear ==
    /\ op = "none"
    /\ \E n \in (0 - ArgMargin)..(LastCongress + ArgMargin) :
         /\ op' = "get_start_year"
         /\ arg' = Some(n)
         /\ ret' = get_start_year(n)
         /\ UNCHANGED <<now, clock, mergevars, membervars, rostervars, extvars>>

CallEndYear ==
    /\ op = "none"
    /\ \E n \in (0 - ArgMargin)..(LastCongress + ArgMargin) :
         /\ op' = "get_end_year"
         /\ arg' = Some(n)
         /\ ret' = get_end_year(n)
         /\ UNCHANGED <<now, clock, mergevars, membervars, rostervars, extvars>>

CalNext == CallConvert \/ CallCurrent \/ CallStartYear \/ CallEndYear

SpecCal == CalInit /\ [][CalNext]_vars

----------------------------------------------------------------------------
(* The merge specification: the raw terms of one document, then the loop   *)
(* of _merge_terms, one raw term per step.                                 *)

\* A document holds at most MaxTerms raw terms.
MaxTerms == 3

TermCongresses == {1, 2}
TermParties == {"democrat", "republican"}
TermPositions ==
    {"representative", "speaker of the house", "president", "vice president"}
TermStates == {"GA", "AL"}

\* The raw terms drawn: every congress, party and position for the first
\* state, and the representative terms of congress 1 for every state.
RawTerms ==
    {BioguideTermRecord(n, party, position, "GA") :
        n \in TermCongresses, party \in TermParties,
        position \in TermPositions}
      \cup {BioguideTermRecord(1, party, "representative", state) :
                party \in TermParties, state \in TermStates}

RawTermLists == UNION {[1..n -> RawTerms] : n \in 0..MaxTerms}

MergeInit ==
    /\ ExtIdle
    /\ raw_terms \in RawTermLists
    /\ term_records = raw_terms
    /\ idx = 1
    /\ merged_terms = <<>>
    /\ merged_objects = <<>>
    /\ mpc = "loop"
    /\ CalIdle
    /\ MemberIdle
    /\ RosterIdle

\* One pass of the loop.  The dict holds the objects of term_records, not
\* copies: `match` is the object stored for the congress, or the incoming
\* term itself when the parties differ, and the item assignments on `match`
\* write into that object of term_records.
MergeIterate ==
    /\ mpc = "loop"
    /\ idx <= Len(term_records)
    /\ LET term == term_records[idx]
           skipped == term.position \in {"vice president", "president"}
           k == lookup_term(merged_terms, term.congress_number)
           match == IF skipped \/ k = 0
                    THEN 0
                    ELSE IF merged_terms[k].party # term.party
                    THEN idx
                    ELSE merged_objects[k]
       IN  /\ merged_terms' = merge_step(merged_terms, term)
           /\ merged_objects' =
                IF skipped
                THEN merged_objects
                ELSE IF k = 0
                THEN Append(merged_objects, idx)
                ELSE [merged_objects EXCEPT ![k] = match]
           /\ term_records' =
                IF match = 0
                THEN term_records
                ELSE IF term_records[match].speaker_of_the_house
                THEN [term_records EXCEPT ![match].position = term.position]
                ELSE IF term.speaker_of_the_house
                THEN [term_records EXCEPT
                        ![match].speaker_of_the_house = TRUE]
                ELSE term_records
    /\ idx' = idx + 1
    /\ UNCHANGED <<raw_terms, mpc, calvars, membervars, rostervars, extvars>>

MergeReturn ==
    /\ mpc = "loop"
    /\ idx > Len(term_records)
    /\ mpc' = "returned"
    /\ UNCHANGED <<raw_terms, term_records, idx, merged_terms, merged_objects, calvars, membervars, rostervars, extvars>>

MergeNext == MergeIterate \/ MergeReturn

SpecMerge == MergeInit /\ [][MergeNext]_vars

\* Every value of the dict is an object of term_records, and the loop writes
\* nothing but the position text and the flag of an earlier raw term.
MergedAreObjects ==
    /\ Len(merged_objects) = Len(merged_terms)
    /\ \A k \in 1..Len(merged_terms) :
            /\ merged_objects[k] \in 1..(idx - 1)
            /\ merged_terms[k] = term_records[merged_objects[k]]
    /\ Len(term_records) = Len(raw_terms)
    /\ \A i \in 1..Len(raw_terms) :
            /\ i >= idx => term_records[i] = raw_terms[i]
            /\ term_records[i]
                = [raw_terms[i] EXCEPT
                    !.position = term_records[i].position,
                    !.speaker_of_the_house =
                        term_records[i].speaker_of_the_house]

----------------------------------------------------------------------------
(* The member specification: one document in the registry and one          *)
(* CongressMember object, constructed and then loaded, updated or assigned *)
(* to in any order.                                                        *)

\* The document holds at most MaxDocTerms raw terms.
MaxDocTerms == 1

DocTerms ==
    {BioguideTermRecord(1, "democrat", position, "GA") :
        position \in TermPositions}

Documents ==
    [id : {<<>>, DocumentId},
     firstnames : {NoneStr, <<" ">>,
                   <<"J", "o", "h", "n", ",", " ", "J", "r", ".">>},
     lastname : {<<" ">>, <<"M", "c", "C", "O", "Y">>},
     terms : UNION {[1..n -> DocTerms] : n \in 0..MaxDocTerms},
     xml : {"valid", "malformed"}]

\* The identifiers a caller constructs a member with.
MemberIds == {NoneStr, <<"w", "1">>, <<"x", "9">>, <<>>}

\* The records a caller hands to the setter: what the registry's document
\* parses to, and that record with its terms removed.
AssignedRecords ==
    IF BioguideMemberRecord(registry[DocumentId]).exc # "none"
    THEN {}
    ELSE {BioguideMemberRecord(registry[DocumentId]).val,
          [BioguideMemberRecord(registry[DocumentId]).val
              EXCEPT !.terms = <<>>]}

MemberInit ==
    /\ ExtIdle
    /\ registry \in {DocumentId :> document : document \in Documents}
    /\ member = new_member(NoneStr)
    /\ mop = "none"
    /\ mexc = "none"
    /\ CalIdle
    /\ MergeIdle
    /\ RosterIdle

\* CongressMember(bioguide_id, load_immediately=...): when load() raises, so
\* does the constructor and no object exists.
MemberConstruct ==
    /\ mop = "none"
    /\ \E bioguide_id \in MemberIds, load_immediately \in BOOLEAN,
          failures \in 0..(MAX_REQUEST_ATTEMPTS + 1) :
         \E loaded \in
               {IF load_immediately
                THEN load_bioguide(new_member(bioguide_id), failures)
                ELSE [exc |-> "none", member |-> new_member(bioguide_id)]} :
             /\ mexc' = loaded.exc
             /\ mop' = IF loaded.exc = "none" THEN "__init__" ELSE "raised"
             /\ member' = loaded.member
    /\ UNCHANGED <<registry, calvars, mergevars, rostervars, extvars>>

\* The object exists: its constructor returned.
Constructed == mop \notin {"none", "raised"}

\* CongressMember.load()
MemberLoad ==
    /\ Constructed
    /\ \E failures \in 0..(MAX_REQUEST_ATTEMPTS + 1) :
         \E loaded \in {load_bioguide(member, failures)} :
             /\ mexc' = loaded.exc
             /\ member' = loaded.member
    /\ mop' = "load"
    /\ UNCHANGED <<registry, calvars, mergevars, rostervars, extvars>>

\* CongressMember.update(): a dict-based record is truthy, None is not.
MemberUpdate ==
    /\ Constructed
    /\ \E failures \in 0..(MAX_REQUEST_ATTEMPTS + 1) :
         \E loaded \in {IF member._bg = NoneRecord
                         THEN load_bioguide(member, failures)
                         ELSE [exc |-> "none", member |-> member]} :
             /\ mexc' = loaded.exc
             /\ member' = loaded.member
    /\ mop' = "update"
    /\ UNCHANGED <<registry, calvars, mergevars, rostervars, extvars>>

\* member.bioguide = new_bioguide
MemberSetBioguide ==
    /\ Constructed
    /\ \E new_bioguide \in AssignedRecords :
         \E assigned \in {set_bioguide(member, new_bioguide)} :
             /\ mexc' = assigned.exc
             /\ member' = assigned.member
    /\ mop' = "bioguide.setter"
    /\ UNCHANGED <<registry, calvars, mergevars, rostervars, extvars>>

\* Congress.members, one record of the roster: a member is constructed for
\* the record's identifier without loading, then assigned the record.
MemberFromRoster ==
    /\ mop = "none"
    /\ \E member_record \in AssignedRecords :
         \E assigned \in
               {set_bioguide(new_member(member_record.bioguide_id),
                             member_record)} :
             /\ mexc' = assigned.exc
             /\ member' = assigned.member
    /\ mop' = "members"
    /\ UNCHANGED <<registry, calvars, mergevars, rostervars, extvars>>

MemberNext ==
    \/ MemberConstruct
    \/ MemberLoad
    \/ MemberUpdate
    \/ MemberSetBioguide
    \/ MemberFromRoster

SpecMember == MemberInit /\ [][MemberNext]_vars

----------------------------------------------------------------------------
(* The roster specification: Congress(a) and then Congress(b) are loaded   *)
(* from an unchanging registry, each through _query_bioguide_by_number and *)
(* the worker pool of _query_members_by_id.                                *)

\* The worker threads of one pool: multiprocessing.cpu_count() of the host.
NUMBER_OF_THREADS == 2

\* The day of the two calls.
RosterDate == [year |-> 2020, month |-> 6, day |-> 1]

\* What the callers pass to Congress(...).
RosterArgs == {116, 2020, 2017, 0}

\* The index of bioguide identifiers per congress, in file order.
congress_index ==
    (115 :> <<<<"B", "2">>, <<"A", "1">>>>)
        @@ (116 :> <<<<"B", "2">>, <<"A", "1">>, <<"C", "3">>>>)
        @@ (114 :> <<<<"B", "2">>, <<"A", "1">>, <<"A", "1">>, <<"B", "2">>,
                     <<"A", "1">>>>)

\* The result pages of the site for a search by congress and position: A1
\* sat in the Continental Congress both as a member and as a delegate.
search_pages(congress, position) ==
    IF congress = 0 /\ position = "ContCong"
    THEN <<<<<<"B", "2">>, <<"A", "1">>>>>>
    ELSE IF congress = 0 /\ position = "Delegate"
    THEN <<<<<<"A", "1">>>>>>
    ELSE <<<<>>>>

\* _scrape_congress_bioguide_ids: congress 0 is searched once per position
\* and the two lists are joined; any other congress is searched once.
_scrape_congress_bioguide_ids(congress) ==
    IF congress = 0
    THEN _scrape_bioguide_ids(search_pages(congress, "ContCong"))
            \o _scrape_bioguide_ids(search_pages(congress, "Delegate"))
    ELSE _scrape_bioguide_ids(search_pages(congress, "None"))

\* The registry's document of a member of the index.
roster_document(bioguide_id) ==
    [id |-> bioguide_id,
     firstnames |-> <<"A", "l">>,
     lastname |-> <<"D", "O", "E">>,
     terms |-> <<BioguideTermRecord(115, "democrat", "representative", "GA")>>,
     xml |-> "valid"]

RosterInit ==
    /\ ExtIdle
    /\ now = RosterDate
    /\ clock = <<>>
    /\ op = "none"
    /\ arg = None
    /\ ret = Ok(0)
    /\ MergeIdle
    /\ registry = [bioguide_id \in {<<"A", "1">>, <<"B", "2">>, <<"C", "3">>}
                      |-> roster_document(bioguide_id)]
    /\ member = new_member(NoneStr)
    /\ mop = "none"
    /\ mexc = "none"
    /\ roster_args \in [1..2 -> RosterArgs]
    /\ results = <<>>
    /\ _number = 0
    /\ main_pc = "idle"
    /\ put_idx = 0
    /\ q = empty_queue
    /\ threading = FALSE
    /\ workers = <<>>
    /\ member_records = <<>>

\* The identifiers _query_bioguide_by_number hands to the pool: those of the
\* index when it holds the congress, and else those scraped from the site.
congress_bioguide_ids(congress_number) ==
    IF congress_number \in DOMAIN congress_index
    THEN congress_index[congress_number]
    ELSE _scrape_congress_bioguide_ids(congress_number)

\* bioguide_ids of the call in progress.
bioguide_ids == congress_bioguide_ids(_number)

\* Congress(number_or_year): the argument is normalized, then load() runs
\* _query_bioguide_by_number up to the start of the worker threads.
CongressStart ==
    /\ main_pc = "idle"
    /\ Len(results) < Len(roster_args)
    /\ \E reads \in clock_reads(4) :
          _number' =
             convert_to_congress_number(Some(roster_args[Len(results) + 1]),
                                        reads).val
    /\ member_records' = <<>>
    /\ threading' = TRUE
    /\ q' = empty_queue
    /\ workers' = [w \in 1..NUMBER_OF_THREADS |->
                      [pc |-> "loop", bioguide_id |-> <<>>]]
    /\ put_idx' = 1
    /\ main_pc' = "put"
    /\ UNCHANGED <<roster_args, results, calvars, mergevars, membervars, extvars>>

\* Mutant: q.put(bioguide_id) on a queue without a maximum size.
MainPutUnbounded ==
    /\ main_pc = "put"
    /\ put_idx <= Len(bioguide_ids)
    /\ q' = [q EXCEPT !.ids = queue_put(@, bioguide_ids[put_idx]),
                      !.unfinished_tasks = @ + 1]
    /\ put_idx' = put_idx + 1
    /\ UNCHANGED <<roster_args, results, _number, main_pc, threading, workers,
                   member_records, calvars, mergevars, membervars, extvars>>

\* q.put(bioguide_id), which waits while the queue is full.
MainPut ==
    /\ main_pc = "put"
    /\ put_idx <= Len(bioguide_ids)
    /\ qsize(q) < NUMBER_OF_THREADS * 2
    /\ q' = [q EXCEPT !.ids = queue_put(@, bioguide_ids[put_idx]),
                      !.unfinished_tasks = @ + 1]
    /\ put_idx' = put_idx + 1
    /\ UNCHANGED <<roster_args, results, _number, main_pc, threading, workers,
                   member_records, calvars, mergevars, membervars, extvars>>

\* Mutant: q.join() returns although tasks are not marked done.
MainJoinNoWait ==
    /\ main_pc = "put"
    /\ put_idx > Len(bioguide_ids)
    /\ threading' = FALSE
    /\ put_idx' = 0
    /\ main_pc' = "cleanup"
    /\ UNCHANGED <<roster_args, results, _number, q, workers, member_records,
                   calvars, mergevars, membervars, extvars>>

\* q.join() returns once every task is marked done; threading = False.
MainJoin ==
    /\ main_pc = "put"
    /\ put_idx > Len(bioguide_ids)
    /\ q.unfinished_tasks = 0
    /\ threading' = FALSE
    /\ put_idx' = 0
    /\ main_pc' = "cleanup"
    /\ UNCHANGED <<roster_args, results, _number, q, workers, member_records,
                   calvars, mergevars, membervars, extvars>>

\* Mutant: the interrupt ends the wait and the records appended so far are
\* returned.
InterruptReturnsPartial ==
    /\ main_pc = "put"
    /\ results' = Append(results, BioguideCongressRecord(_number, member_records))
    /\ main_pc' = "idle"
    /\ UNCHANGED <<roster_args, _number, put_idx, q, threading, workers,
                   member_records, calvars, mergevars, membervars, extvars>>

\* except KeyboardInterrupt: _sys.exit(1), while the identifiers are put or
\* q.join() waits; the daemon threads end with the interpreter.
Interrupt ==
    /\ main_pc = "put"
    /\ main_pc' = "exited"
    /\ workers' = <<>>
    /\ UNCHANGED <<roster_args, results, _number, put_idx, q, threading,
                   member_records, calvars, mergevars, membervars, extvars>>

\* q.put(0), once per worker thread.
MainPutSentinel ==
    /\ main_pc = "cleanup"
    /\ put_idx < NUMBER_OF_THREADS
    /\ qsize(q) < NUMBER_OF_THREADS * 2
    /\ q' = [q EXCEPT !.zeros = @ + 1, !.unfinished_tasks = @ + 1]
    /\ put_idx' = put_idx + 1
    /\ UNCHANGED <<roster_args, results, _number, main_pc, threading, workers,
                   member_records, calvars, mergevars, membervars, extvars>>

\* return BioguideMemberList(member_records), and the congress record is
\* built and stored by Congress.load().
MainReturn ==
    /\ main_pc = "cleanup"
    /\ put_idx = NUMBER_OF_THREADS
    /\ results' = Append(results, BioguideCongressRecord(_number, member_records))
    /\ main_pc' = "idle"
    /\ UNCHANGED <<roster_args, _number, put_idx, q, threading, workers,
                   member_records, calvars, mergevars, membervars, extvars>>

\* Mutant: the loop does not test `threading` (while True).
WorkerLoopForever(w) ==
    /\ workers[w].pc = "loop"
    /\ workers' = [workers EXCEPT ![w].pc = "get"]
    /\ UNCHANGED <<roster_args, results, _number, main_pc, put_idx, q,
                   threading, member_records, calvars, mergevars, membervars, extvars>>

\* while threading:
WorkerLoop(w) ==
    /\ workers[w].pc = "loop"
    /\ workers' = [workers EXCEPT ![w].pc =
                      IF threading THEN "get" ELSE "exited"]
    /\ UNCHANGED <<roster_args, results, _number, main_pc, put_idx, q,
                   threading, member_records, calvars, mergevars, membervars, extvars>>

\* bioguide_id = q.get(), which waits while the queue is empty; a sentinel
\* sends the worker back to the loop test.
WorkerGet(w) ==
    /\ workers[w].pc = "get"
    /\ qsize(q) > 0
    /\ IF q.ids # <<>>
       THEN /\ q' = [q EXCEPT !.ids = Tail(@)]
            /\ workers' = [workers EXCEPT
                              ![w] = [pc |-> "query",
                                      bioguide_id |-> queue_min(q)]]
       ELSE /\ q' = [q EXCEPT !.zeros = @ - 1]
            /\ workers' = [workers EXCEPT ![w].pc = "loop"]
    /\ UNCHANGED <<roster_args, results, _number, main_pc, put_idx, threading,
                   member_records, calvars, mergevars, membervars, extvars>>

\* member_record = _query_member_by_id(bioguide_id), appended to the list;
\* an exception ends the thread before the task is marked done.
WorkerQuery(w) ==
    /\ workers[w].pc = "query"
    /\ \E failures \in 0..(MAX_REQUEST_ATTEMPTS + 1) :
         \E member_record \in
               {_query_member_by_id(workers[w].bioguide_id, failures)} :
            IF member_record.exc = "none"
            THEN /\ member_records' = Append(member_records, member_record.val)
                 /\ workers' = [workers EXCEPT ![w].pc = "task_done"]
            ELSE /\ workers' = [workers EXCEPT ![w].pc = "raised"]
                 /\ UNCHANGED member_records
    /\ UNCHANGED <<roster_args, results, _number, main_pc, put_idx, q,
                   threading, calvars, mergevars, membervars, extvars>>

\* q.task_done()
WorkerTaskDone(w) ==
    /\ workers[w].pc = "task_done"
    /\ q' = [q EXCEPT !.unfinished_tasks = @ - 1]
    /\ workers' = [workers EXCEPT ![w].pc = "loop"]
    /\ UNCHANGED <<roster_args, results, _number, main_pc, put_idx, threading,
                   member_records, calvars, mergevars, membervars, extvars>>

\* The steps of the calling thread and of the worker threads.
RosterStep ==
    \/ CongressStart
    \/ MainPut
    \/ MainJoin
    \/ MainPutSentinel
    \/ MainReturn
    \/ \E w \in DOMAIN workers : WorkerLoop(w)
    \/ \E w \in DOMAIN workers : WorkerGet(w)
    \/ \E w \in DOMAIN workers : WorkerQuery(w)
    \/ \E w \in DOMAIN workers : WorkerTaskDone(w)

RosterNext == RosterStep \/ Interrupt

SpecRoster == RosterInit /\ [][RosterNext]_vars

\* The pool specification: one call for congress 114, whose index has more
\* lines than the queue holds entries (two identifiers, listed five times).
PoolInit ==
    /\ ExtIdle
    /\ now = RosterDate
    /\ clock = <<>>
    /\ op = "none"
    /\ arg = None
    /\ ret = Ok(0)
    /\ MergeIdle
    /\ registry = [bioguide_id \in {<<"A", "1">>, <<"B", "2">>, <<"C", "3">>}
                      |-> roster_document(bioguide_id)]
    /\ member = new_member(NoneStr)
    /\ mop = "none"
    /\ mexc = "none"
    /\ roster_args = <<114>>
    /\ results = <<>>
    /\ _number = 0
    /\ main_pc = "idle"
    /\ put_idx = 0
    /\ q = empty_queue
    /\ threading = FALSE
    /\ workers = <<>>
    /\ member_records = <<>>

SpecPool == PoolInit /\ [][RosterNext]_vars

\* The threads of the pool are scheduled: the calling thread goes on with
\* its sentinels, and a worker thread goes on with its loop test and with a
\* q.get() that has something to take.
PoolFairness ==
    /\ WF_rostervars(MainPutSentinel)
    /\ \A w \in 1..NUMBER_OF_THREADS :
          /\ WF_rostervars(w \in DOMAIN workers /\ WorkerLoop(w))
          /\ WF_rostervars(w \in DOMAIN workers /\ WorkerGet(w))

SpecShutdown == PoolInit /\ [][RosterNext]_vars /\ PoolFairness

----------------------------------------------------------------------------
(* The text specification: Text.fix_last_name_casing is called once on a   *)
(* last name.                                                              *)

\* The longest name drawn from NameChars.
MaxNameLen == 4

\* An upper-case and a lower-case pair of letters, the space, and an
\* upper-case letter past ASCII, A with acute.
NameChars == {"M", "c", "A", "n", " ", "U+00C1"}

\* The last name of test_text_funcs and an all-uppercase surname.
McLASTNAME == <<"M", "c", "L", "A", "S", "T", "N", "A", "M", "E">>
SMITH == <<"S", "M", "I", "T", "H">>
LUJAN == <<"L", "U", "J", "U+00C1", "N">>

LastNames ==
    UNION {[1..n -> NameChars] : n \in 0..MaxNameLen}
        \cup {McLASTNAME, SMITH, LUJAN}

TextInit ==
    /\ CalIdle
    /\ MergeIdle
    /\ MemberIdle
    /\ RosterIdle
    /\ OptionIdle
    /\ SearchIdle
    /\ DuoIdle
    /\ FetchIdle
    /\ CrawlIdle
    /\ last_name \in LastNames
    /\ fixed_last_name = None

\* fixed_last_name = util.Text.fix_last_name_casing(last_name)
FixLastNameCasing ==
    /\ fixed_last_name = None
    /\ fixed_last_name' = Some(fix_last_name_casing(last_name))
    /\ UNCHANGED <<last_name, basevars, optionvars, searchvars, duovars, fetchvars, crawlvars>>

TextNext == FixLastNameCasing

SpecText == TextInit /\ [][TextNext]_vars

----------------------------------------------------------------------------
(* The option classes and the validators of the search filters.            *)

\* class Position: each attribute name and its value.
Position ==
    ("REPRESENTATIVE" :> "Representative") @@ ("SENATOR" :> "Senator") @@
    ("DELEGATE" :> "Delegate") @@ ("VICE_PRESIDENT" :> "Vice President") @@
    ("PRESIDENT" :> "President") @@ ("CONTINENTAL_CONGRESS" :> "ContCong") @@
    ("SPEAKER_OF_THE_HOUSE" :> "Speaker of the House")

\* class Party.Current
PartyCurrent ==
    ("DEMOCRAT" :> "Democrat") @@ ("INDEPENDENT" :> "Independent") @@
    ("REPUBLICAN" :> "Republican")

\* class Party.Errors
PartyErrors ==
    ("ANTI_JACKSONIAN" :> "Anti Jacksonian") @@
    ("ANTI_ADMINISTRATION" :> "Anti-administration") @@
    ("CRAWFORD_REPUBLICAN" :> "Crawford Republicans") @@
    ("DEMOCRAT_FARM_LABOR" :> "Democrat-Farm Labor") @@
    ("DEMOCRAT_REPUBLICAN" :> "Democrat;Republican") @@
    ("PRO_ADMINISTRATION" :> "Pro-administration")

\* class Party.Historical; AMERICAN is assigned twice and holds the second
\* value.
PartyHistorical ==
    ("ADAMS" :> "Adams") @@ ("ADAMS_REPUBLICAN" :> "Adams Republican") @@
    ("ADAMS_CLAY_FEDERALIST" :> "Adams-Clay Federalist") @@
    ("ADAMS_CLAY_REPUBLICAN" :> "Adams-Clay Republican") @@
    ("ALLIANCE" :> "Alliance") @@ ("AMERICAN" :> "American (Know-Nothing)") @@
    ("AMERICAN_LABORITE" :> "American Laborite") @@
    ("AMERICAN_PARTY" :> "American Party") @@
    ("ANTI_ADMINISTRATION" :> "Anti-Administration") @@
    ("ANTI_DEMOCRAT" :> "Anti-Democrat") @@
    ("ANTI_JACKSONIAN" :> "Anti-Jacksonian") @@
    ("ANTI_LECOMPTON_DEMOCRAT" :> "Anti-Lecompton Democrat") @@
    ("ANTI_MASONIC" :> "Anti-Masonic") @@
    ("ANTI_MONOPOLIST" :> "Anti-Monopolist") @@
    ("COALITIONIST" :> "Coalitionist") @@
    ("CONSERVATIVE" :> "Conservative") @@
    ("CONSERVATIVE_REPUBLICAN" :> "Conservative Republican") @@
    ("CONSTITUTIONAL_UNIONIST" :> "Constitutional Unionist") @@
    ("CRAWFORD_FEDERALIST" :> "Crawford Federalist") @@
    ("CRAWFORD_REPUBLICAN" :> "Crawford Republican") @@
    ("DEMOCRAT_FARMER_LABOR" :> "Democrat Farmer Labor") @@
    ("DEMOCRAT_LIBERAL" :> "Democrat-Liberal") @@
    ("DEMOCRAT_INDEPENDENT" :> "Democrat/Independent") @@
    ("DEMOCRAT_REPUBLICAN" :> "Democrat/Republican") @@
    ("DEMOCRATIC_REPUBLICAN" :> "Democratic Republican") @@
    ("DEMOCRATIC_AND_UNION_LABOR" :> "Democratic and Union Labor") @@
    ("FARMER_LABORITE" :> "Farmer Laborite") @@
    ("FEDERALIST" :> "Federalist") @@ ("FREE_SILVER" :> "Free Silver") @@
    ("FREE_SOIL" :> "Free Soil") @@ ("FREE_SOILER" :> "Free Soiler") @@
    ("GREENBACKER" :> "Greenbacker") @@ ("HOME_RULE" :> "Home Rule") @@
    ("INDEPENDENCE_PARTY_MINNESOTA" :> "Independence Party (Minnesota)") @@
    ("INDEPENDENT_DEMOCRAT" :> "Independent Democrat") @@
    ("INDEPENDENT_REPUBLICAN" :> "Independent Republican") @@
    ("INDEPENDENT_WHIG" :> "Independent Whig") @@ ("JACKSON" :> "Jackson") @@
    ("JACKSON_DEMOCRAT" :> "Jackson Democrat") @@
    ("JACKSON_FEDERALIST" :> "Jackson Federalist") @@
    ("JACKSON_REPUBLICAN" :> "Jackson Republican") @@
    ("JACKSONIAN" :> "Jacksonian") @@
    ("JACKSONIAN_REPUBLICAN" :> "Jacksonian Republican") @@
    ("LABOR" :> "Labor") @@ ("LAW_AND_ORDER" :> "Law and Order") @@
    ("LIBERAL" :> "Liberal") @@
    ("LIBERAL_REPUBLICAN" :> "Liberal Republican") @@
    ("LIBERTY" :> "Liberty") @@ ("NA" :> "NA") @@
    ("NACIONALISTA" :> "Nacionalista") @@ ("NATIONAL" :> "National") @@
    ("NATIONAL_REPUBLICAN" :> "National Republican") @@
    ("NEW_PROGRESSIVE" :> "New Progressive") @@
    ("NONPARTISAN" :> "Nonpartisan") @@ ("NULLIFIER" :> "Nullifier") @@
    ("OPPOSITION" :> "Opposition") @@
    ("OPPOSITION_PARTY" :> "Opposition Party") @@
    ("POPULIST" :> "Populist") @@
    ("PRO_ADMINISTRATION" :> "Pro-Administration") @@
    ("PROGRESISTA" :> "Progresista") @@ ("PROGRESSIVE" :> "Progressive") @@
    ("PROGRESSIVE_REPUBLICAN" :> "Progressive Republican") @@
    ("PROHIBITIONIST" :> "Prohibitionist") @@
    ("READJUSTER" :> "Readjuster") @@ ("REPUBLICAN" :> "Republican") @@
    ("SILVER_REPUBLICAN" :> "Silver Republican") @@
    ("SOCIALIST" :> "Socialist") @@
    ("STATE_RIGHTS_DEMOCRAT" :> "State Rights Democrat") @@
    ("STATE_RIGHTS" :> "States Rights") @@
    ("STATES_RIGHTS_DEMOCRAT" :> "States Rights Democrat") @@
    ("STATES_RIGHTS_WHIG" :> "States-Rights Whig") @@
    ("UNCONDITIONAL_UNIONIST" :> "Unconditional Unionist") @@
    ("UNION" :> "Union") @@ ("UNION_LABOR" :> "Union Labor") @@
    ("UNION_REPUBLICAN" :> "Union Republican") @@
    ("UNIONIST" :> "Unionist") @@ ("UNKNOWN" :> "Unknown") @@
    ("VAN_BUREN_DEMOCRAT" :> "Van Buren Democrat") @@ ("WHIG" :> "Whig")

\* class State
State ==
    ("ALASKA" :> "AK") @@ ("ALABAMA" :> "AL") @@ ("ARKANSAS" :> "AK") @@
    ("AMERICAN_SAMOA" :> "AS") @@ ("ARIZONA" :> "AZ") @@
    ("CALIFORNIA" :> "CA") @@ ("COLORADO" :> "CO") @@
    ("CONNETICUT" :> "CT") @@ ("DISTRICT_OF_COLUMBIA" :> "DC") @@
    ("DELAWARE" :> "DE") @@ ("DAKOTA_TERRITORY" :> "DK") @@
    ("FLORIDA" :> "FL") @@ ("GEORGIA" :> "GA") @@ ("GUAM" :> "GU") @@
    ("HAWAII" :> "HI") @@ ("IOWA" :> "IA") @@ ("IDAHO" :> "IN") @@
    ("KANSAS" :> "KS") @@ ("KENTUCKY" :> "KY") @@ ("LOUISIANA" :> "LA") @@
    ("MASSACHUSETTS" :> "MA") @@ ("MARYLAND" :> "MD") @@ ("MAINE" :> "ME") @@
    ("MICHIGAN" :> "MI") @@ ("MINNESOTA" :> "MN") @@ ("MISSOURI" :> "MO") @@
    ("NORTHERN_MARIANA_ISLANDS" :> "MP") @@ ("MISSISSIPPI" :> "MS") @@
    ("MONTANA" :> "MN") @@ ("NORTH_CAROLINA" :> "NC") @@
    ("NORTH_DAKOTA" :> "ND") @@ ("NEBRASKA" :> "NE") @@
    ("NEW_HAMPSHIRE" :> "NH") @@ ("NEW_JERSEY" :> "NJ") @@
    ("NEW_MEXICO" :> "NM") @@ ("NEVADA" :> "NV") @@ ("NEW_YORK" :> "NY") @@
    ("OHIO" :> "OH") @@ ("OKLAHOMA" :> "OK") @@
    ("ORLEANS_TERRITORY" :> "OL") @@ ("OREGAN" :> "OR") @@
    ("PENNSYLVANIA" :> "PA") @@ ("PHILIPPINE_ISLANDS" :> "PI") @@
    ("PUERTO_RICO" :> "PR") @@ ("RHODE_ISLAND" :> "RI") @@
    ("SOUTH_CAROLINA" :> "SC") @@ ("SOUTH_DAKOTA" :> "SD") @@
    ("TENNESSEE" :> "TN") @@ ("TEXAS" :> "TX") @@ ("UTAH" :> "UT") @@
    ("VIRGINIA" :> "VA") @@ ("VIRGIN_ISLANDS" :> "VI") @@
    ("VERMONT" :> "VT") @@ ("WASHINGTON" :> "WA") @@ ("WISCONSIN" :> "WI") @@
    ("WEST_VIRGINIA" :> "WV") @@ ("WYOMING" :> "WY") @@
    ("UNITED_STATES" :> "US")

\* [getattr(cls, p) for p in vars(cls) if p[:2] != '__']
option_values(cls) == {cls[p] : p \in DOMAIN cls}

\* is_valid_bioguide_position: valid_positions holds the names vars() gives.
is_valid_bioguide_position(position) ==
    LET valid_positions == DOMAIN Position
    IN  position.none \/ position.val \in valid_positions

\* is_valid_bioguide_party
is_valid_bioguide_party(party) ==
    LET valid_parties ==
            (DOMAIN PartyCurrent \cup DOMAIN PartyHistorical)
                \cup DOMAIN PartyErrors
    IN  party.none \/ party.val \in valid_parties

\* is_valid_bioguide_state
is_valid_bioguide_state(state) ==
    LET valid_states == DOMAIN State
    IN  state.none \/ state.val \in valid_states

----------------------------------------------------------------------------
(* The option specification: one validator is called on one value.         *)

\* What callers pass: None, the values and the names of the classes, and
\* the string of test_bioguide_input_checker_funcs.
FilterValues ==
    {None} \cup
    {Some(v) : v \in
        UNION {option_values(cls) \cup DOMAIN cls :
                  cls \in {Position, PartyCurrent, PartyErrors,
                           PartyHistorical, State}}
            \cup {"123456"}}

OptionInit ==
    /\ CalIdle
    /\ MergeIdle
    /\ MemberIdle
    /\ RosterIdle
    /\ TextIdle
    /\ SearchIdle
    /\ DuoIdle
    /\ FetchIdle
    /\ CrawlIdle
    /\ validator = "none"
    /\ value \in FilterValues
    /\ valid = FALSE

\* option.is_valid_bioguide_position(value)
CallValidPosition ==
    /\ validator = "none"
    /\ validator' = "is_valid_bioguide_position"
    /\ valid' = is_valid_bioguide_position(value)
    /\ UNCHANGED <<value, basevars, textvars, searchvars, duovars, fetchvars, crawlvars>>

\* option.is_valid_bioguide_party(value)
CallValidParty ==
    /\ validator = "none"
    /\ validator' = "is_valid_bioguide_party"
    /\ valid' = is_valid_bioguide_party(value)
    /\ UNCHANGED <<value, basevars, textvars, searchvars, duovars, fetchvars, crawlvars>>

\* option.is_valid_bioguide_state(value)
CallValidState ==
    /\ validator = "none"
    /\ validator' = "is_valid_bioguide_state"
    /\ valid' = is_valid_bioguide_state(value)
    /\ UNCHANGED <<value, basevars, textvars, searchvars, duovars, fetchvars, crawlvars>>

OptionNext == CallValidPosition \/ CallValidParty \/ CallValidState

SpecOption == OptionInit /\ [][OptionNext]_vars

----------------------------------------------------------------------------
(* The member search: _query_members validates the filters, builds the     *)
(* query (one GET for the verification token), scrapes the identifiers     *)
(* page by page and fetches every member's document.                       *)

\* Mutant: the test admits one more retry.
may_retry_once_more(n) == n <= MAX_REQUEST_ATTEMPTS

\* except ConnectionError: if attempts < MAX_REQUEST_ATTEMPTS
may_retry(n) == n < MAX_REQUEST_ATTEMPTS

\* The checks _query_members makes before it builds the query: the name of
\* the error raised, "none" when every filter passes.
validate_filters(args) ==
    IF ~args.pos.none /\ ~is_valid_bioguide_position(args.pos)
    THEN "InvalidPositionError"
    ELSE IF ~args.party.none /\ ~is_valid_bioguide_party(args.party)
    THEN "InvalidPartyError"
    ELSE IF ~args.state.none /\ ~is_valid_bioguide_state(args.state)
    THEN "InvalidStateError"
    ELSE IF ~args.congress.none /\ ~is_valid_number(args.congress.val)
    THEN "InvalidCongressError"
    ELSE "none"

----------------------------------------------------------------------------
(* The search specification: one call of _query_members against a site     *)
(* whose requests may each fail with a ConnectionError.                    *)

\* The result pages a site may serve: one page, two pages, two pages that
\* both list A1, and pages with a link whose identifier is empty.
SearchSites ==
    {<<<<<<"A", "1">>>>>>,
     <<<<<<"B", "2">>, <<"A", "1">>>>, <<<<"C", "3">>>>>>,
     <<<<<<"B", "2">>, <<"A", "1">>>>, <<<<"A", "1">>>>>>,
     <<<<<<"B", "2">>, <<>>>>>>,
     <<<<<<>>, <<"A", "1">>>>>>,
     <<<<<<>>>>, <<<<"A", "1">>>>>>}

\* The filters callers pass: None, a value of the option class, the name of
\* that value's attribute, and a string the class does not hold.
SearchArgs ==
    [pos : {None, Some("Representative"), Some("REPRESENTATIVE"),
            Some("123456")},
     party : {None, Some("Democrat"), Some("123456")},
     state : {None, Some("GEORGIA"), Some("123456")},
     congress : {None, Some(116), Some(999)}]

SearchInit ==
    /\ now = RosterDate
    /\ clock = <<>>
    /\ op = "none"
    /\ arg = None
    /\ ret = Ok(0)
    /\ MergeIdle
    /\ registry = [bioguide_id \in {<<"A", "1">>, <<"B", "2">>, <<"C", "3">>}
                      |-> roster_document(bioguide_id)]
    /\ member = new_member(NoneStr)
    /\ mop = "none"
    /\ mexc = "none"
    /\ RosterIdle
    /\ TextIdle
    /\ OptionIdle
    /\ DuoIdle
    /\ FetchIdle
    /\ CrawlIdle
    /\ search_args \in SearchArgs
    /\ site \in SearchSites
    /\ spc = "start"
    /\ attempts = [send |-> 0, page |-> 0, doc |-> 0]
    /\ issued = [send |-> 0, page |-> 0, doc |-> 0]
    /\ requested = {}
    /\ send_return = "none"
    /\ page_num = 0
    /\ scraped_ids = <<>>
    /\ doc_idx = 0
    /\ search_records = <<>>
    /\ search_exc = [exc |-> "none", at |-> "none"]

\* _query_members up to `query = BioguideRetroQuery(...)`: the four checks.
QueryMembers ==
    /\ spc = "start"
    /\ IF validate_filters(search_args) = "none"
       THEN /\ spc' = "token"
            /\ UNCHANGED search_exc
       ELSE /\ spc' = "raised"
            /\ search_exc' = [exc |-> validate_filters(search_args),
                              at |-> "filters"]
    /\ UNCHANGED <<search_args, site, attempts, issued, requested,
                   send_return, page_num, scraped_ids, doc_idx,
                   search_records, basevars, textvars, optionvars, duovars, fetchvars, crawlvars>>

\* _get_verification_token answers: in BioguideRetroQuery.__init__ the
\* scrape starts with query.send(); in refresh_verification_token the page
\* loop goes on to query.send().
TokenGetReturns ==
    /\ spc \in {"token", "refresh"}
    /\ requested' = requested \cup {"token GET"}
    /\ send_return' = IF spc = "token" THEN "scrape" ELSE "page"
    /\ attempts' = [attempts EXCEPT !.send = 0]
    /\ issued' = [issued EXCEPT !.send = 0]
    /\ spc' = "send"
    /\ UNCHANGED <<search_args, site, page_num, scraped_ids, doc_idx,
                   search_records, search_exc, basevars, textvars,
                   optionvars, duovars, fetchvars, crawlvars>>

\* _get_verification_token's GET fails: nothing catches the ConnectionError.
TokenGetFails ==
    /\ spc \in {"token", "refresh"}
    /\ requested' = requested \cup {"token GET"}
    /\ spc' = "raised"
    /\ search_exc' = [exc |-> "ConnectionError", at |-> "token"]
    /\ UNCHANGED <<search_args, site, attempts, issued, send_return, page_num,
                   scraped_ids, doc_idx, search_records, basevars, textvars,
                   optionvars, duovars, fetchvars, crawlvars>>

\* _get_member_records reaches the identifier at place i of the list: past
\* the end it returns; for an empty identifier _query_member_by_id raises
\* IndexError at bioguide_id[0], before any request; else the GET of the
\* document is next.
member_query_at(ids, i) ==
    IF i > Len(ids)
    THEN "done"
    ELSE IF ids[i] = <<>>
    THEN "raised"
    ELSE "doc"

\* query.send(): the POST answers. For _scrape_bioguide_ids the first page
\* is read and the loop goes to page 2 or ends; for the page loop the
\* cookies are renewed, attempts += 1 and the page is asked for again.
SendReturns ==
    /\ spc = "send"
    /\ requested' = requested \cup {"search POST"}
    /\ IF send_return = "scrape"
       THEN /\ scraped_ids' = site[1]
            /\ IF final_page_num_of(site) = 1
               THEN /\ page_num' = 1
                    /\ spc' = member_query_at(site[1], 1)
                    /\ search_exc' =
                          IF member_query_at(site[1], 1) = "raised"
                          THEN [exc |-> "IndexError", at |-> "doc"]
                          ELSE search_exc
                    /\ doc_idx' = 1
                    /\ attempts' = [attempts EXCEPT !.doc = 0]
                    /\ issued' = [issued EXCEPT !.send = @ + 1, !.doc = 0]
               ELSE /\ page_num' = 2
                    /\ spc' = "page"
                    /\ attempts' = [attempts EXCEPT !.page = 0]
                    /\ issued' = [issued EXCEPT !.send = @ + 1, !.page = 0]
                    /\ UNCHANGED <<doc_idx, search_exc>>
       ELSE /\ attempts' = [attempts EXCEPT !.page = @ + 1]
            /\ issued' = [issued EXCEPT !.send = @ + 1]
            /\ spc' = "page"
            /\ UNCHANGED <<page_num, scraped_ids, doc_idx, search_exc>>
    /\ UNCHANGED <<search_args, site, send_return, search_records,
                   basevars, textvars, optionvars, duovars, fetchvars, crawlvars>>

\* query.send(): the POST fails; attempts += 1 and again, or the error.
SendFails ==
    /\ spc = "send"
    /\ requested' = requested \cup {"search POST"}
    /\ issued' = [issued EXCEPT !.send = @ + 1]
    /\ IF may_retry(attempts.send)
       THEN /\ attempts' = [attempts EXCEPT !.send = @ + 1]
            /\ UNCHANGED <<spc, search_exc>>
       ELSE /\ spc' = "raised"
            /\ search_exc' = [exc |-> "BioguideConnectionError",
                              at |-> "send"]
            /\ UNCHANGED attempts
    /\ UNCHANGED <<search_args, site, send_return, page_num, scraped_ids,
                   doc_idx, search_records, basevars, textvars, optionvars, duovars, fetchvars, crawlvars>>

\* The GET of page page_num answers: its identifiers are added, and the
\* loop ends at the final page or asks for the next one.
PageGetReturns ==
    /\ spc = "page"
    /\ requested' = requested \cup {"page GET"}
    /\ scraped_ids' = scraped_ids \o site[page_num]
    /\ IF page_num = final_page_num_of(site)
       THEN /\ spc' = member_query_at(scraped_ids', 1)
            /\ search_exc' =
                  IF member_query_at(scraped_ids', 1) = "raised"
                  THEN [exc |-> "IndexError", at |-> "doc"]
                  ELSE search_exc
            /\ doc_idx' = 1
            /\ attempts' = [attempts EXCEPT !.doc = 0]
            /\ issued' = [issued EXCEPT !.page = @ + 1, !.doc = 0]
            /\ UNCHANGED page_num
       ELSE /\ page_num' = page_num + 1
            /\ attempts' = [attempts EXCEPT !.page = 0]
            /\ issued' = [issued EXCEPT !.page = 0]
            /\ UNCHANGED <<spc, doc_idx, search_exc>>
    /\ UNCHANGED <<search_args, site, send_return, search_records,
                   basevars, textvars, optionvars, duovars, fetchvars, crawlvars>>

\* The GET of page page_num fails: the session is renewed (a token GET and
\* a send()) before the next attempt, or the error is raised.
PageGetFails ==
    /\ spc = "page"
    /\ requested' = requested \cup {"page GET"}
    /\ issued' = [issued EXCEPT !.page = @ + 1]
    /\ IF may_retry(attempts.page)
       THEN /\ spc' = "refresh"
            /\ UNCHANGED search_exc
       ELSE /\ spc' = "raised"
            /\ search_exc' = [exc |-> "BioguideConnectionError",
                              at |-> "page"]
    /\ UNCHANGED <<search_args, site, attempts, send_return, page_num,
                   scraped_ids, doc_idx, search_records, basevars, textvars,
                   optionvars, duovars, fetchvars, crawlvars>>

\* _query_member_by_id: the GET of the document answers; the record is
\* appended and _get_member_records goes to the next identifier, whose
\* query raises at once when the identifier is empty.
DocGetReturns ==
    /\ spc = "doc"
    /\ requested' = requested \cup {"document GET"}
    /\ \E member_record \in
             {_query_member_by_id(scraped_ids[doc_idx], attempts.doc)} :
          IF member_record.exc = "none"
          THEN /\ search_records' = Append(search_records, member_record.val)
               /\ doc_idx' = doc_idx + 1
               /\ spc' = member_query_at(scraped_ids, doc_idx + 1)
               /\ attempts' = [attempts EXCEPT !.doc = 0]
               /\ issued' = IF member_query_at(scraped_ids, doc_idx + 1) = "doc"
                            THEN [issued EXCEPT !.doc = 0]
                            ELSE [issued EXCEPT !.doc = @ + 1]
               /\ search_exc' =
                     IF member_query_at(scraped_ids, doc_idx + 1) = "raised"
                     THEN [exc |-> "IndexError", at |-> "doc"]
                     ELSE search_exc
          ELSE /\ spc' = "raised"
               /\ search_exc' = [exc |-> member_record.exc, at |-> "doc"]
               /\ issued' = [issued EXCEPT !.doc = @ + 1]
               /\ UNCHANGED <<search_records, doc_idx, attempts>>
    /\ UNCHANGED <<search_args, site, send_return, page_num, scraped_ids,
                   basevars, textvars, optionvars, duovars, fetchvars, crawlvars>>

\* _query_member_by_id: the GET fails; attempts += 1, sleep and again, or
\* the error.
DocGetFails ==
    /\ spc = "doc"
    /\ requested' = requested \cup {"document GET"}
    /\ issued' = [issued EXCEPT !.doc = @ + 1]
    /\ IF may_retry(attempts.doc)
       THEN /\ attempts' = [attempts EXCEPT !.doc = @ + 1]
            /\ UNCHANGED <<spc, search_exc>>
       ELSE /\ spc' = "raised"
            /\ search_exc' = [exc |-> "BioguideConnectionError", at |-> "doc"]
            /\ UNCHANGED attempts
    /\ UNCHANGED <<search_args, site, send_return, page_num, scraped_ids,
                   doc_idx, search_records, basevars, textvars, optionvars, duovars, fetchvars, crawlvars>>

SearchNext ==
    \/ QueryMembers
    \/ TokenGetReturns
    \/ TokenGetFails
    \/ SendReturns
    \/ SendFails
    \/ PageGetReturns
    \/ PageGetFails
    \/ DocGetReturns
    \/ DocGetFails

SpecSearch == SearchInit /\ [][SearchNext]_vars

----------------------------------------------------------------------------
(* The Congress object over both datasets: vistos/src/duo.py and            *)
(* vistos/src/gpo/govinfo.py.                                                *)

\* get_congress_years: the pair of years of a congress number.
get_congress_years(number) ==
    IF number \in DOMAIN _NUMBER_YEAR_MAPPING
    THEN Ok(_NUMBER_YEAR_MAPPING[number])
    ELSE Raise("KeyError")

\* GovInfoCongressRecord.__init__
GovInfoCongressRecord(number, start_year, end_year, congress_govinfo) ==
    [number |-> number, start_year |-> start_year, end_year |-> end_year,
     members |-> congress_govinfo]

\* _cdir_data_exists: the collection counts a package for the congress.
_cdir_data_exists(congress) == congress \in DOMAIN directory

\* The orders in which the summaries of n granules can arrive: the threads
\* of _get_granule_summaries_concurrently take the endpoints off the queue
\* first in, first out, and each appends its text when the answer is there,
\* so a summary is overtaken by those of the other threads alone.  An order
\* gives, for every place in granule_text_data, the place of the granule
\* among the endpoints.
arrival_orders(n) ==
    {order \in Permutations(1..n) :
        \A k \in 1..n :
            Cardinality({j \in (k + 1)..n : order[j] < order[k]})
                < NUMBER_OF_THREADS}

\* _get_cdir: None without a package, and else the granule summaries of the
\* congress, in the order they arrived in, under its number and years.
_get_cdir(congress, order) ==
    IF ~_cdir_data_exists(congress)
    THEN None
    ELSE Some(GovInfoCongressRecord(congress,
                                    get_congress_years(congress).val[1],
                                    get_congress_years(congress).val[2],
                                    [k \in 1..Len(directory[congress]) |->
                                        directory[congress][order[k]]]))

\* The records _get_cdir can return for a congress.
congress_directories(congress) ==
    IF ~_cdir_data_exists(congress)
    THEN {_get_cdir(congress, <<>>)}
    ELSE {_get_cdir(congress, order) :
            order \in arrival_orders(Len(directory[congress]))}

\* The member lists _query_bioguide_by_number can return for a congress: the
\* records of its identifiers in an order the worker threads can leave.
bioguide_member_lists(number) ==
    LET ids == congress_bioguide_ids(number)
    IN  {[i \in 1..Len(ids) |-> _query_member_by_id(ids[p[i]], 0).val] :
            p \in Permutations(1..Len(ids))}

\* Mutant: the flag is cleared before the list is found empty.
set_govinfo_flag_first(m, new_govinfo) ==
    IF ~new_govinfo.has_members
    THEN [exc |-> "InvalidGovInfoError", member |-> m]
    ELSE IF Len(new_govinfo.members) = 0
    THEN [exc |-> "InvalidGovInfoError",
          member |-> [m EXCEPT !.complete_govinfo = FALSE]]
    ELSE IF "bioGuideId" \notin new_govinfo.members[1].keys
    THEN [exc |-> "none",
          member |-> [m EXCEPT !.complete_govinfo = FALSE,
                               !._gi = new_govinfo]]
    ELSE [exc |-> "none", member |-> [m EXCEPT !._gi = new_govinfo]]

\* CongressMember.govinfo (setter)
set_govinfo(m, new_govinfo) ==
    IF ~new_govinfo.has_members
    THEN [exc |-> "InvalidGovInfoError", member |-> m]
    ELSE IF Len(new_govinfo.members) = 0
    THEN [exc |-> "InvalidGovInfoError", member |-> m]
    ELSE IF "bioGuideId" \notin new_govinfo.members[1].keys
    THEN [exc |-> "none",
          member |-> [m EXCEPT !.complete_govinfo = FALSE,
                               !._gi = new_govinfo]]
    ELSE [exc |-> "none", member |-> [m EXCEPT !._gi = new_govinfo]]

\* Congress.__init__ up to the call of load().
new_congress(number_or_year, govinfo_api_key, include_bioguide, reads) ==
    LET number == convert_to_congress_number(number_or_year, reads)
    IN  IF number.exc # "none"
        THEN Raise(number.exc)
        ELSE IF get_congress_years(number.val).exc # "none"
        THEN Raise(get_congress_years(number.val).exc)
        ELSE Ok([_gi |-> None,
                 _bg |-> None,
                 _number |-> number.val,
                 _years |-> get_congress_years(number.val).val,
                 _load_gi |-> ~govinfo_api_key.none,
                 _load_bg |-> include_bioguide \/ govinfo_api_key.none])

\* Congress.load: each dataset that was enabled is loaded; cdir is what
\* _get_cdir returned and member_list what the worker pool returned.
Congress_load(self, cdir, member_list) ==
    [self EXCEPT
        !._gi = IF self._load_gi THEN cdir ELSE @,
        !._bg = IF self._load_bg
                THEN Some(BioguideCongressRecord(self._number, member_list))
                ELSE @]

\* Congress.members, first loop: one CongressMember per Bioguide record.
RECURSIVE members_of_bioguide(_, _)
members_of_bioguide(records, member_list) ==
    IF Len(member_list) = Len(records)
    THEN [exc |-> "none", val |-> member_list]
    ELSE LET member_record == records[Len(member_list) + 1]
             assigned == set_bioguide(new_member(member_record.bioguide_id),
                                      member_record)
         IN  IF assigned.exc # "none"
             THEN [exc |-> assigned.exc, val |-> member_list]
             ELSE members_of_bioguide(records,
                                      Append(member_list, assigned.member))

\* The expression under try in the second loop:
\*   member_record['members'] and member_record['members'][0]
\*       and member_record['members'][0]['bioGuideId']
\* "KeyError" when a subscript raises, "falsy" when the conjunction stops at
\* an empty list or an empty dict, and else "found".
nested_lookup(member_record) ==
    IF ~member_record.has_members
    THEN "KeyError"
    ELSE IF Len(member_record.members) = 0
    THEN "falsy"
    ELSE IF member_record.members[1].keys = {}
    THEN "falsy"
    ELSE IF "bioGuideId" \notin member_record.members[1].keys
    THEN "KeyError"
    ELSE "found"

\* The inner loop of the second loop: the payload is assigned to every listed
\* member of that identifier.  The setter cannot raise here: the payload has
\* a first member.
attach_govinfo(member_list, bioguide_id, member_record) ==
    [i \in 1..Len(member_list) |->
        IF member_list[i]._bg_id # bioguide_id
        THEN member_list[i]
        ELSE set_govinfo(member_list[i], member_record).member]

\* Congress.members, second loop with both datasets, from entry i on.
RECURSIVE members_of_both(_, _, _)
members_of_both(entries, i, member_list) ==
    IF i > Len(entries)
    THEN [exc |-> "none", val |-> member_list]
    ELSE IF nested_lookup(entries[i]) = "KeyError"
    THEN LET assigned == set_govinfo(new_member(NoneStr), entries[i])
         IN  IF assigned.exc # "none"
             THEN [exc |-> assigned.exc, val |-> member_list]
             ELSE members_of_both(entries, i + 1,
                                  Append(member_list, assigned.member))
    ELSE IF Len(entries[i].members) = 0
    THEN [exc |-> "IndexError", val |-> member_list]
    ELSE IF "bioGuideId" \notin entries[i].members[1].keys
    THEN [exc |-> "KeyError", val |-> member_list]
    ELSE members_of_both(entries, i + 1,
                         attach_govinfo(member_list,
                                        entries[i].members[1].bioGuideId,
                                        entries[i]))

\* Congress.members, the loop with GovInfo data alone, from entry i on.
RECURSIVE members_of_govinfo(_, _, _)
members_of_govinfo(entries, i, member_list) ==
    IF i > Len(entries)
    THEN [exc |-> "none", val |-> member_list]
    ELSE LET bioguide_id ==
                 IF ~entries[i].has_members
                 THEN NoneStr
                 ELSE IF Len(entries[i].members) = 0
                 THEN NoneStr
                 ELSE IF "bioGuideId" \notin entries[i].members[1].keys
                 THEN NoneStr
                 ELSE entries[i].members[1].bioGuideId
             assigned == set_govinfo(new_member(bioguide_id), entries[i])
         IN  IF assigned.exc # "none"
             THEN [exc |-> assigned.exc, val |-> member_list]
             ELSE members_of_govinfo(entries, i + 1,
                                     Append(member_list, assigned.member))

\* Congress.members
Congress_members(self) ==
    LET listed == IF self._bg.none
                  THEN [exc |-> "none", val |-> <<>>]
                  ELSE members_of_bioguide(self._bg.val.members, <<>>)
    IN  IF listed.exc # "none"
        THEN listed
        ELSE IF ~self._gi.none /\ ~self._bg.none
        THEN members_of_both(self._gi.val.members, 1, listed.val)
        ELSE IF ~self._gi.none
        THEN members_of_govinfo(self._gi.val.members, 1, listed.val)
        ELSE listed

\* The entries of one directory: at most this many.
MaxEntries == 2

\* An identifier no Bioguide member has.
Z9 == <<"Z", "9">>

\* The directory entries drawn: one of a Bioguide member, one of an
\* identifier no member has, one whose first member has no 'bioGuideId', one
\* whose first member is an empty dict, one with an empty list, and one
\* without the key 'members'.
DirectoryEntries ==
    {govinfo_entry(TRUE, <<granule_member({"bioGuideId", "memberName"},
                                          <<"A", "1">>)>>),
     govinfo_entry(TRUE, <<granule_member({"bioGuideId", "memberName"}, Z9)>>),
     govinfo_entry(TRUE, <<granule_member({"memberName"}, NoneStr)>>),
     govinfo_entry(TRUE, <<granule_member({}, NoneStr)>>),
     govinfo_entry(TRUE, <<>>),
     govinfo_entry(FALSE, <<>>)}

\* The directories drawn: GovInfo has a package for congress 115 alone.
Directories ==
    {(115 :> entries) :
        entries \in UNION {[1..n -> DirectoryEntries] : n \in 0..MaxEntries}}

\* What the callers pass to Congress(...).
CongressArgs ==
    [number_or_year : {None, Some(0), Some(115), Some(2017)},
     govinfo_api_key : {None, Some("KEY")},
     include_bioguide : BOOLEAN,
     load_immediately : BOOLEAN]

DuoInit ==
    /\ TextIdle
    /\ OptionIdle
    /\ SearchIdle
    /\ FetchIdle
    /\ CrawlIdle
    /\ now = RosterDate
    /\ clock = <<>>
    /\ op = "none"
    /\ arg = None
    /\ ret = Ok(0)
    /\ MergeIdle
    /\ registry = [bioguide_id \in {<<"A", "1">>, <<"B", "2">>, <<"C", "3">>}
                      |-> roster_document(bioguide_id)]
    /\ member = new_member(NoneStr)
    /\ mop = "none"
    /\ mexc = "none"
    /\ RosterIdle
    /\ congress_args \in CongressArgs
    /\ directory \in Directories
    /\ congress_object = <<>>
    /\ cpc = "none"
    /\ members_ret = Ok(<<>>)

\* Congress(number_or_year, govinfo_api_key, include_bioguide,
\* load_immediately): the constructor, with the load it ends in when
\* load_immediately is true.
NewCongress ==
    /\ cpc = "none"
    /\ \E self \in {new_congress(congress_args.number_or_year,
                                 congress_args.govinfo_api_key,
                                 congress_args.include_bioguide,
                                 reads) : reads \in clock_reads(4)} :
          IF self.exc # "none"
          THEN /\ cpc' = "raised"
               /\ UNCHANGED congress_object
          ELSE IF congress_args.load_immediately
          THEN /\ cpc' = "loaded"
               /\ \E cdir \in congress_directories(self.val._number),
                     member_list \in bioguide_member_lists(self.val._number) :
                     congress_object' =
                        Congress_load(self.val, cdir, member_list)
          ELSE /\ cpc' = "constructed"
               /\ congress_object' = self.val
    /\ UNCHANGED <<congress_args, directory, members_ret, basevars, textvars,
                   optionvars, searchvars, fetchvars, crawlvars>>

\* Congress.load, called by hand.
CongressLoad ==
    /\ cpc = "constructed"
    /\ cpc' = "loaded"
    /\ \E cdir \in congress_directories(congress_object._number),
          member_list \in bioguide_member_lists(congress_object._number) :
          congress_object' = Congress_load(congress_object, cdir, member_list)
    /\ UNCHANGED <<congress_args, directory, members_ret, basevars, textvars,
                   optionvars, searchvars, fetchvars, crawlvars>>

\* Congress.members is read.
CongressMembers ==
    /\ cpc \in {"constructed", "loaded"}
    /\ cpc' = "listed"
    /\ members_ret' = Congress_members(congress_object)
    /\ UNCHANGED <<congress_args, directory, congress_object, basevars,
                   textvars, optionvars, searchvars, fetchvars, crawlvars>>

DuoNext ==
    \/ NewCongress
    \/ CongressLoad
    \/ CongressMembers

SpecDuo == DuoInit /\ [][DuoNext]_vars

----------------------------------------------------------------------------
(* Assignments to the bioguide and govinfo properties of a CongressMember  *)
(* and of a Congress: vistos/src/duo.py, the four setters.                 *)

\* A congress record as a caller can hand it over: each attribute has a
\* value or is None.
congress_record_fields(r) ==
    [number |-> Some(r.number), start_year |-> Some(r.start_year),
     end_year |-> Some(r.end_year), members |-> Some(r.members)]

\* None in the place of a member list.
NoneMembers == [none |-> TRUE, val |-> <<>>]

\* valid_bioguide and valid_govinfo of the Congress setters.
valid_congress_record(r) ==
    /\ ~r.number.none
    /\ ~r.start_year.none
    /\ ~r.end_year.none
    /\ ~r.members.none

\* Congress.bioguide (setter)
Congress_set_bioguide(self, new_bioguide) ==
    IF valid_congress_record(new_bioguide)
    THEN [exc |-> "none", congress |-> [self EXCEPT !._bg = Some(new_bioguide)]]
    ELSE [exc |-> "InvalidBioguideError", congress |-> self]

\* Congress.govinfo (setter)
Congress_set_govinfo(self, new_govinfo) ==
    IF valid_congress_record(new_govinfo)
    THEN [exc |-> "none", congress |-> [self EXCEPT !._gi = Some(new_govinfo)]]
    ELSE [exc |-> "InvalidGovInfoError", congress |-> self]

\* The member records assigned: those of two documents, and the first with
\* no terms, with first_name None, and with an empty last name.
AssignedMemberRecords ==
    LET a1 == _query_member_by_id(<<"A", "1">>, 0).val
        b2 == _query_member_by_id(<<"B", "2">>, 0).val
    IN  {a1, b2,
         [a1 EXCEPT !.terms = <<>>],
         [a1 EXCEPT !.first_name = NoneStr],
         [a1 EXCEPT !.last_name = <<>>]}

\* The congress records assigned: those of two congresses, and the first
\* with each of its attributes None in turn.
AssignedCongressRecords ==
    LET r115 == congress_record_fields(BioguideCongressRecord(115, <<>>))
        r116 == congress_record_fields(BioguideCongressRecord(116, <<>>))
    IN  {r115, r116,
         [r115 EXCEPT !.number = None],
         [r115 EXCEPT !.start_year = None],
         [r115 EXCEPT !.end_year = None],
         [r115 EXCEPT !.members = NoneMembers]}

\* CongressMember() and Congress(115, load_immediately=False) have been
\* constructed.
AssignInit ==
    /\ TextIdle
    /\ OptionIdle
    /\ SearchIdle
    /\ FetchIdle
    /\ CrawlIdle
    /\ now = RosterDate
    /\ clock = <<>>
    /\ op = "none"
    /\ arg = None
    /\ ret = Ok(0)
    /\ MergeIdle
    /\ registry = [bioguide_id \in {<<"A", "1">>, <<"B", "2">>, <<"C", "3">>}
                      |-> roster_document(bioguide_id)]
    /\ member = new_member(NoneStr)
    /\ mop = "none"
    /\ mexc = "none"
    /\ RosterIdle
    /\ congress_args = [number_or_year |-> Some(115), govinfo_api_key |-> None,
                        include_bioguide |-> TRUE, load_immediately |-> FALSE]
    /\ directory = <<>>
    /\ congress_object \in
          {new_congress(Some(115), None, TRUE, reads).val :
              reads \in clock_reads(4)}
    /\ cpc = "constructed"
    /\ members_ret = Ok(<<>>)

\* member.bioguide = new_bioguide
AssignMemberBioguide ==
    /\ \E new_bioguide \in AssignedMemberRecords :
         \E assigned \in {set_bioguide(member, new_bioguide)} :
             /\ mexc' = assigned.exc
             /\ member' = assigned.member
    /\ mop' = "CongressMember.bioguide"
    /\ UNCHANGED <<registry, calvars, mergevars, rostervars, duovars,
                   textvars, optionvars, searchvars, fetchvars, crawlvars>>

\* member.govinfo = new_govinfo
AssignMemberGovinfo ==
    /\ \E new_govinfo \in DirectoryEntries :
         \E assigned \in {set_govinfo(member, new_govinfo)} :
             /\ mexc' = assigned.exc
             /\ member' = assigned.member
    /\ mop' = "CongressMember.govinfo"
    /\ UNCHANGED <<registry, calvars, mergevars, rostervars, duovars,
                   textvars, optionvars, searchvars, fetchvars, crawlvars>>

\* congress.bioguide = new_bioguide
AssignCongressBioguide ==
    /\ \E new_bioguide \in AssignedCongressRecords :
         \E assigned \in {Congress_set_bioguide(congress_object, new_bioguide)} :
             /\ mexc' = assigned.exc
             /\ congress_object' = assigned.congress
    /\ mop' = "Congress.bioguide"
    /\ UNCHANGED <<registry, member, calvars, mergevars, rostervars,
                   congress_args, directory, cpc, members_ret,
                   textvars, optionvars, searchvars, fetchvars, crawlvars>>

\* congress.govinfo = new_govinfo
AssignCongressGovinfo ==
    /\ \E new_govinfo \in AssignedCongressRecords :
         \E assigned \in {Congress_set_govinfo(congress_object, new_govinfo)} :
             /\ mexc' = assigned.exc
             /\ congress_object' = assigned.congress
    /\ mop' = "Congress.govinfo"
    /\ UNCHANGED <<registry, member, calvars, mergevars, rostervars,
                   congress_args, directory, cpc, members_ret,
                   textvars, optionvars, searchvars, fetchvars, crawlvars>>

AssignNext ==
    \/ AssignMemberBioguide
    \/ AssignMemberGovinfo
    \/ AssignCongressBioguide
    \/ AssignCongressGovinfo

SpecAssign == AssignInit /\ [][AssignNext]_vars

----------------------------------------------------------------------------
(* One fetch of a member document, request by request:                     *)
(* vistos/src/gpo/bioguideretro.py, _query_member_by_id                    *)

\* The documents of the fetch: names with a control character that the
\* cleaning removes, with a form feed that it keeps, with a bar that is
\* valid XML and that the cleaning would remove, names of nothing but a
\* control character, and markup that does not nest.
FetchDocuments ==
    [id : {DocumentId},
     firstnames : {<<"A", "l">>, <<"A", "U+0001", "l">>,
                   <<"A", "\f", "l">>, <<"A", "|", "U+0001", "l">>,
                   <<"A", "|", "l">>,
                   <<"A", "l", "U+0001", ",", " ", "J", "r", ".">>,
                   <<"U+0001">>},
     lastname : {<<"D", "O", "E">>, <<"D", "U+0001", "O", "E">>,
                 <<"O", "'", "U+0001", "D", "O", "E">>, <<"U+0001">>,
                 NoneStr},
     terms : {<<BioguideTermRecord(1, "democrat", "representative", "GA")>>},
     xml : {"valid", "malformed"}]

\* The identifiers asked for: the document's, one the registry does not
\* hold, and the empty one.
FetchIds == {DocumentId, <<"x", "9">>, <<>>}

FetchInit ==
    /\ now = RosterDate
    /\ clock = <<>>
    /\ op = "none"
    /\ arg = None
    /\ ret = Ok(0)
    /\ MergeIdle
    /\ \E document \in FetchDocuments : registry = (DocumentId :> document)
    /\ member = new_member(NoneStr)
    /\ mop = "none"
    /\ mexc = "none"
    /\ RosterIdle
    /\ TextIdle
    /\ OptionIdle
    /\ SearchIdle
    /\ DuoIdle
    /\ CrawlIdle
    /\ \E bioguide_id \in FetchIds :
         fetch = [pc |-> "called", bioguide_id |-> bioguide_id,
                  attempts |-> 0, gets |-> 0, answered |-> 0, parses |-> 0,
                  cleaned |-> 0, ret |-> Ok(0)]

\* xml_relative_url = bioguide_id[0] + ...: IndexError for the empty
\* identifier, else the loop is entered and the first GET is sent.
FetchStart ==
    /\ fetch # <<>>
    /\ fetch.pc = "called"
    /\ fetch' = IF fetch.bioguide_id = <<>>
                THEN [fetch EXCEPT !.pc = "raised",
                                   !.ret = Raise("IndexError")]
                ELSE [fetch EXCEPT !.pc = "get", !.gets = 1]
    /\ UNCHANGED <<basevars, textvars, optionvars, searchvars, duovars,
                   crawlvars>>

\* requests.get raises ConnectionError: below the ceiling attempts += 1,
\* sleep and continue with the next GET; at the ceiling
\* BioguideConnectionError.
FetchGetFails ==
    /\ fetch # <<>>
    /\ fetch.pc = "get"
    /\ fetch' = IF fetch.attempts < MAX_REQUEST_ATTEMPTS
                THEN [fetch EXCEPT !.attempts = @ + 1, !.gets = @ + 1]
                ELSE [fetch EXCEPT !.pc = "raised",
                                   !.ret = Raise("BioguideConnectionError")]
    /\ UNCHANGED <<basevars, textvars, optionvars, searchvars, duovars,
                   crawlvars>>

\* requests.get returns: the text is parsed; on ParseError it is cleaned
\* and parsed once more, with no GET in between; the record is returned or
\* the exception leaves the function.
FetchGetReturns ==
    /\ fetch # <<>>
    /\ fetch.pc = "get"
    /\ \E text \in {response_text(fetch.bioguide_id)} :
       \E strict \in {fromstring(text)} :
       \E record \in {parse_member_record(text)} :
         fetch' = [fetch EXCEPT
                      !.pc = IF record.exc = "none"
                             THEN "returned" ELSE "raised",
                      !.answered = @ + 1,
                      !.parses = IF strict.exc = "none" THEN 1 ELSE 2,
                      !.cleaned = IF strict.exc = "none" THEN 0 ELSE 1,
                      !.ret = record]
    /\ UNCHANGED <<basevars, textvars, optionvars, searchvars, duovars,
                   crawlvars>>

FetchNext ==
    \/ FetchStart
    \/ FetchGetFails
    \/ FetchGetReturns

SpecFetch == FetchInit /\ [][FetchNext]_vars

----------------------------------------------------------------------------
(* The roster crawl, request by request: _query_bioguide_by_number up to   *)
(* the identifier list, with the index, the verification token, the        *)
(* cookies and the pagination control of the site.                         *)

\* exists_in_congress_index and lookup_bioguide_ids over the files of the
\* index directory: congress number -> the lines of its file.
exists_in_congress_index(index, congress_number) ==
    congress_number \in DOMAIN index
lookup_bioguide_ids(index, congress_number) == index[congress_number]

\* The root page that the site serves: with or without the input named
\* __RequestVerificationToken, whose value is the token of that response.
root_page_of(site_, serial) ==
    [token_input |-> IF site_.token_input THEN Some(serial) ELSE None]

\* Mutant: a root page without the input field gives the token None.
_get_verification_token_or_none(root_page) ==
    Ok(IF root_page.token_input.none THEN 0 ELSE root_page.token_input.val)

\* _get_verification_token on the root page: select_one returns None when
\* the input is absent, and None['value'] raises TypeError.
_get_verification_token(root_page) ==
    IF root_page.token_input.none
    THEN Raise("TypeError")
    ELSE Ok(root_page.token_input.val)

\* What the site answers to a search: congress 0 has one delegate on a
\* single page; every other search gets the site's pages.
search_results(site_, position) ==
    IF position = "Delegate"
    THEN [pagination |-> NoPagination, pages |-> <<<<<<"A", "1">>>>>>]
    ELSE [pagination |-> site_.pagination, pages |-> site_.pages]

\* The member links of page n of the results: none beyond the last page.
page_ids(pages, n) == IF n \in 1..Len(pages) THEN pages[n] ELSE <<>>

\* One request of the log: its kind, whether it was answered, the
\* verification token among its parameters (a POST), the cookies sent with
\* it (a page GET) and the page asked for.
request(kind, ok, token, cookie, page) ==
    [kind |-> kind, ok |-> ok, token |-> token, cookie |-> cookie,
     page |-> page]

\* The two pages of the sites that page their results.
TwoPages == <<<<<<"B", "2">>, <<"A", "1">>>>, <<<<"C", "3">>>>>>

\* The three pages of the longest result.
ThreePages == <<<<<<"B", "2">>, <<"A", "1">>>>, <<<<"C", "3">>>>, <<<<"D", "4">>>>>>

\* An href whose page number carries a sign and a space, which int() takes.
signed_page_href ==
    <<"/", "S", "e", "a", "r", "c", "h", "?", "p", "a", "g", "e", "=",
      " ", "+", "2">>

\* The sites: a single page without a pagination control; pages behind a
\* first page without the control; two pages with the full control, with
\* page links only, with a control that has nothing but the link to the
\* next page, and with a skipToLast link of a signed page number; each
\* with and without the token input on the root page.
CrawlSites ==
    [token_input : BOOLEAN,
     pagination : {NoPagination}, pages : {<<<<<<"A", "1">>>>>>, TwoPages}]
      \cup
    [token_input : BOOLEAN,
     pagination :
        {pagination_of(TwoPages),
         [skip_to_last |-> NoLink,
          page_links |-> <<page_link("2", page_href(2)),
                           page_link(">", page_href(2))>>],
         [skip_to_last |-> NoLink,
          page_links |-> <<page_link(">", page_href(2))>>],
         [skip_to_last |-> page_link(">>", signed_page_href),
          page_links |-> <<>>]},
     pages : {TwoPages}]

\* The index directories: the files of three congresses, and no file.
CrawlIndexes == {congress_index, <<>>}

\* The congress numbers asked for.
CrawlNumbers == {0, 116}

\* _query_bioguide_by_number has been called and has sent nothing yet.
crawl_called(congress_number, index, site_) ==
    [pc |-> "called", congress_number |-> congress_number,
     index |-> index, site |-> site_, position |-> "None",
     token_for |-> "none", verification_token |-> 0,
     tokens_served |-> 0, cookie_jar |-> 0,
     posts_answered |-> 0, send_for |-> "none",
     send_attempts |-> 0, page_attempts |-> 0,
     final_page_num |-> 0, page_num |-> 0,
     bioguide_ids |-> <<>>, first_ids |-> <<>>,
     log |-> <<>>, ret |-> Ok(<<>>)]

CrawlInit ==
    /\ now = RosterDate
    /\ clock = <<>>
    /\ op = "none"
    /\ arg = None
    /\ ret = Ok(0)
    /\ MergeIdle
    /\ MemberIdle
    /\ RosterIdle
    /\ TextIdle
    /\ OptionIdle
    /\ SearchIdle
    /\ DuoIdle
    /\ FetchIdle
    /\ \E congress_number \in CrawlNumbers, index \in CrawlIndexes,
          site_ \in CrawlSites :
         crawl = crawl_called(congress_number, index, site_)

\* BioguideRetroQuery(congress, position): a new query object, and the GET
\* of _get_verification_token is sent.
new_query(c, position) ==
    [c EXCEPT !.pc = "token", !.token_for = "init", !.position = position,
              !.verification_token = 0, !.cookie_jar = 0]

\* The crawl leaves with exception exc, and there is no list.
crawl_raised(c, exc) ==
    [c EXCEPT !.pc = "raised", !.ret = [val |-> <<>>, exc |-> exc]]

\* _scrape_bioguide_ids returns bioguide_ids to
\* _scrape_congress_bioguide_ids: for congress 0 the Delegate query follows
\* the ContCong query and the two lists are joined.
scrape_returned(c) ==
    IF c.congress_number = 0 /\ c.position = "ContCong"
    THEN new_query([c EXCEPT !.first_ids = c.bioguide_ids,
                             !.bioguide_ids = <<>>],
                   "Delegate")
    ELSE [c EXCEPT !.pc = "returned",
                   !.ret = Ok(c.first_ids \o c.bioguide_ids)]

\* Mutant: the loop has no break at the final page and asks for the page
\* after it.
scrape_page_past_final(c) ==
    LET pages == search_results(c.site, c.position).pages
        listed == [c EXCEPT !.bioguide_ids = @ \o page_ids(pages, c.page_num)]
    IN  IF ~(c.page_num <= c.final_page_num)
        THEN scrape_returned(c)
        ELSE [listed EXCEPT !.page_num = @ + 1, !.page_attempts = 0,
                            !.pc = "page"]

\* One pass of `while page_num <= final_page_num` with the response of
\* page page_num at hand: its identifiers are added; at the final page the
\* loop ends, and else the GET of the next page is sent.
scrape_page(c) ==
    LET pages == search_results(c.site, c.position).pages
        listed == [c EXCEPT !.bioguide_ids = @ \o page_ids(pages, c.page_num)]
    IN  IF ~(c.page_num <= c.final_page_num)
        THEN scrape_returned(c)
        ELSE IF c.page_num = c.final_page_num
        THEN scrape_returned(listed)
        ELSE [listed EXCEPT !.page_num = @ + 1, !.page_attempts = 0,
                            !.pc = "page"]

\* Mutant: the index is not looked at (scrape=True).
CrawlStartScrape ==
    /\ crawl # <<>>
    /\ crawl.pc = "called"
    /\ crawl' = new_query(crawl, IF crawl.congress_number = 0
                                 THEN "ContCong" ELSE "None")
    /\ UNCHANGED <<basevars, textvars, optionvars, searchvars, duovars,
                   fetchvars>>

\* _query_bioguide_by_number(congress_number): the identifiers of the index
\* when it holds the congress; else _scrape_congress_bioguide_ids builds
\* its first query.
CrawlStart ==
    /\ crawl # <<>>
    /\ crawl.pc = "called"
    /\ crawl' =
          IF exists_in_congress_index(crawl.index, crawl.congress_number)
          THEN [crawl EXCEPT
                   !.pc = "returned",
                   !.ret = Ok(lookup_bioguide_ids(crawl.index,
                                                  crawl.congress_number))]
          ELSE new_query(crawl, IF crawl.congress_number = 0
                                THEN "ContCong" ELSE "None")
    /\ UNCHANGED <<basevars, textvars, optionvars, searchvars, duovars,
                   fetchvars>>

\* The GET of the root page answers: the token is read from it, or
\* TypeError.  In __init__ the scrape goes on to query.send(); in
\* refresh_verification_token the page loop goes on to query.send().
CrawlTokenGetReturns ==
    /\ crawl # <<>>
    /\ crawl.pc = "token"
    /\ \E token \in {_get_verification_token(
                         root_page_of(crawl.site, crawl.tokens_served + 1))} :
       \E sent \in {[crawl EXCEPT
                        !.log = Append(@, request("token GET", TRUE, 0, 0, 0)),
                        !.tokens_served = @ + 1]} :
         crawl' = IF token.exc # "none"
                  THEN crawl_raised(sent, token.exc)
                  ELSE [sent EXCEPT
                           !.verification_token = token.val,
                           !.pc = "send",
                           !.send_attempts = 0,
                           !.send_for = IF crawl.token_for = "init"
                                        THEN "scrape" ELSE "page"]
    /\ UNCHANGED <<basevars, textvars, optionvars, searchvars, duovars,
                   fetchvars>>

\* Mutant: a failed GET of the root page is passed over and the query is
\* sent without a token.
CrawlTokenGetFailsPassed ==
    /\ crawl # <<>>
    /\ crawl.pc = "token"
    /\ crawl' = [crawl EXCEPT
                    !.log = Append(@, request("token GET", FALSE, 0, 0, 0)),
                    !.pc = "send",
                    !.send_attempts = 0,
                    !.send_for = IF crawl.token_for = "init"
                                 THEN "scrape" ELSE "page"]
    /\ UNCHANGED <<basevars, textvars, optionvars, searchvars, duovars,
                   fetchvars>>

\* The GET of the root page fails: nothing catches the ConnectionError.
CrawlTokenGetFails ==
    /\ crawl # <<>>
    /\ crawl.pc = "token"
    /\ crawl' = crawl_raised(
                   [crawl EXCEPT
                       !.log = Append(@, request("token GET", FALSE, 0, 0, 0))],
                   "ConnectionError")
    /\ UNCHANGED <<basevars, textvars, optionvars, searchvars, duovars,
                   fetchvars>>

\* query.send(): the POST answers.  In _scrape_bioguide_ids the cookies are
\* kept, the final page number is read from the response and the loop
\* starts with page 1; in the page loop the cookies are renewed,
\* attempts += 1 and the page is asked for again.
CrawlSendReturns ==
    /\ crawl # <<>>
    /\ crawl.pc = "send"
    /\ \E answered \in
            {[crawl EXCEPT
                 !.log = Append(@, request("search POST", TRUE,
                                           crawl.verification_token, 0, 0)),
                 !.posts_answered = @ + 1,
                 !.cookie_jar = crawl.posts_answered + 1]} :
       \E final_page_num \in
            {_get_final_page_number(
                search_results(crawl.site, crawl.position).pagination)} :
         crawl' =
            IF crawl.send_for = "page"
            THEN [answered EXCEPT !.page_attempts = @ + 1, !.pc = "page"]
            ELSE IF final_page_num.exc # "none"
            THEN crawl_raised(answered, final_page_num.exc)
            ELSE scrape_page([answered EXCEPT
                                 !.final_page_num = final_page_num.val,
                                 !.page_num = 1,
                                 !.bioguide_ids = <<>>])
    /\ UNCHANGED <<basevars, textvars, optionvars, searchvars, duovars,
                   fetchvars>>

\* query.send(): the POST fails; attempts += 1 and the same request again,
\* or BioguideConnectionError.
CrawlSendFails ==
    /\ crawl # <<>>
    /\ crawl.pc = "send"
    /\ \E sent \in
            {[crawl EXCEPT
                 !.log = Append(@, request("search POST", FALSE,
                                           crawl.verification_token, 0, 0))]} :
         crawl' = IF may_retry(crawl.send_attempts)
                  THEN [sent EXCEPT !.send_attempts = @ + 1]
                  ELSE crawl_raised(sent, "BioguideConnectionError")
    /\ UNCHANGED <<basevars, textvars, optionvars, searchvars, duovars,
                   fetchvars>>

\* The GET of page page_num answers: the next pass of the loop.
CrawlPageGetReturns ==
    /\ crawl # <<>>
    /\ crawl.pc = "page"
    /\ crawl' = scrape_page(
                   [crawl EXCEPT
                       !.log = Append(@, request("page GET", TRUE, 0,
                                                 crawl.cookie_jar,
                                                 crawl.page_num))])
    /\ UNCHANGED <<basevars, textvars, optionvars, searchvars, duovars,
                   fetchvars>>

\* The GET of page page_num fails: the token is fetched again and the query
\* sent again before the next attempt, or BioguideConnectionError.
CrawlPageGetFails ==
    /\ crawl # <<>>
    /\ crawl.pc = "page"
    /\ \E sent \in
            {[crawl EXCEPT
                 !.log = Append(@, request("page GET", FALSE, 0,
                                           crawl.cookie_jar,
                                           crawl.page_num))]} :
         crawl' = IF may_retry(crawl.page_attempts)
                  THEN [sent EXCEPT !.pc = "token", !.token_for = "refresh"]
                  ELSE crawl_raised(sent, "BioguideConnectionError")
    /\ UNCHANGED <<basevars, textvars, optionvars, searchvars, duovars,
                   fetchvars>>

CrawlNext ==
    \/ CrawlStart
    \/ CrawlTokenGetReturns
    \/ CrawlTokenGetFails
    \/ CrawlSendReturns
    \/ CrawlSendFails
    \/ CrawlPageGetReturns
    \/ CrawlPageGetFails

SpecCrawl == CrawlInit /\ [][CrawlNext]_vars

----------------------------------------------------------------------------
(* The page loop of the crawl: the index holds no congress, and a site     *)
(* with three pages is asked for congress 116.  Every request ends, with   *)
(* an answer or with a ConnectionError, and the thread goes on.            *)

\* The site with three pages and the full pagination control.
ThreePageSite ==
    [token_input |-> TRUE, pagination |-> pagination_of(ThreePages),
     pages |-> ThreePages]

PagesInit ==
    /\ now = RosterDate
    /\ clock = <<>>
    /\ op = "none"
    /\ arg = None
    /\ ret = Ok(0)
    /\ MergeIdle
    /\ MemberIdle
    /\ RosterIdle
    /\ TextIdle
    /\ OptionIdle
    /\ SearchIdle
    /\ DuoIdle
    /\ FetchIdle
    /\ \/ \E congress_number \in CrawlNumbers, site_ \in CrawlSites :
            crawl = crawl_called(congress_number, <<>>, site_)
       \/ crawl = crawl_called(116, <<>>, ThreePageSite)

\* Every step of the crawl changes its position or adds a request to the
\* log.
crawl_progress == <<crawl.pc, crawl.log>>

SpecPages == PagesInit /\ [][CrawlNext]_vars /\ WF_crawl_progress(CrawlNext)

----------------------------------------------------------------------------
(* Properties of the calendar and the normalizer.                          *)

Converted == op = "convert_to_congress_number" /\ ~arg.none

\* The dates the clock showed to the call: the date it started at and what
\* each datetime.now() returned.  A statement about the current date is
\* one about a date of these: the call meets it when it meets it at one of
\* the dates it ran at.
CallDates == {now} \cup {clock[i] : i \in 1..Len(clock)}

\* The clock showed the call one date.
WithinOneDay == CallDates = {now}

\* current_session() at a date: what get_current_congress_number returns
\* when every datetime.now() shows that date.
current_session(date) == get_current_congress_number(<<date, date, date>>)

\* C6: normalizer idempotence: at every date, normalize(n) = n for every
\* session number n with 0 <= n <= current_session().
C6_NormalizerIdempotent ==
    (Converted /\ 0 <= arg.val) =>
        \E date \in CallDates :
            (/\ current_session(date).exc = "none"
             /\ arg.val <= current_session(date).val)
                => ret = Ok(arg.val)

\* What holds of the idempotence: the same for a call that midnight does
\* not pass during.
C6_IdempotentWithinOneDay ==
    (Converted /\ 0 <= arg.val /\ WithinOneDay) =>
        ((/\ current_session(now).exc = "none"
          /\ arg.val <= current_session(now).val)
            => ret = Ok(arg.val))

\* C7: normalizer year equivalence: normalize(1789) = normalize(1790) = 1,
\* and for every session n >= 1 that ended before the current year both
\* start_year(n) and start_year(n) + 1 normalize to n.
C7_NormalizerYearEquivalence ==
    Converted =>
        /\ arg.val \in {1789, 1790} => ret = Ok(1)
        /\ \E date \in CallDates :
            \A n \in 1..LastCongress :
                (/\ _NUMBER_YEAR_MAPPING[n][1] \in {arg.val, arg.val - 1}
                 /\ _NUMBER_YEAR_MAPPING[n][2] < date.year)
                    => ret = Ok(n)

C7_Witness ==
    /\ Converted
    /\ arg.val = 1789
    /\ ret = Ok(1)

\* C8: the normalizer is total: at a date the calendar covers (one for which
\* current_session() is defined), every input (None, negative, a session
\* number, a year, a value past the calendar) yields without error a session
\* number in 0..current_session().
C8_NormalizerTotal ==
    op = "convert_to_congress_number" =>
        \E date \in CallDates :
            current_session(date).exc = "none" =>
                /\ ret.exc = "none"
                /\ 0 <= ret.val
                /\ ret.val <= current_session(date).val

\* A negative number, in a call that midnight passes during.
C8_Witness ==
    /\ Converted
    /\ arg.val < 0
    /\ ~WithinOneDay
    /\ \A date \in CallDates : current_session(date).exc = "none"
    /\ ret = Ok(0)

\* C9 as claimed: for every session n with 1 <= n <= current_session(),
\* end_year(n-1) = start_year(n) and start_year(n+1) = end_year(n): each
\* lookup returns, and returns the year of its neighbour.
C9_ContiguityBothSides ==
    /\ (op = "get_end_year" /\ 1 <= arg.val + 1) =>
        \A current \in {current_session(now)} :
            (current.exc = "none" /\ arg.val + 1 <= current.val)
                => (ret.exc = "none" /\ ret = get_start_year(arg.val + 1))
    /\ (op = "get_start_year" /\ 1 <= arg.val - 1) =>
        \A current \in {current_session(now)} :
            (current.exc = "none" /\ arg.val - 1 <= current.val)
                => (ret.exc = "none" /\ ret = get_end_year(arg.val - 1))

\* C9 amended: for every session n with 1 <= n <= current_session(),
\* end_year(n-1) = start_year(n); start_year(n+1) = end_year(n) when n+1 is a
\* session of the table, and start_year(n+1) raises KeyError when it is not.
C9_CalendarContiguity ==
    /\ (op = "get_end_year" /\ 1 <= arg.val + 1) =>
        \A current \in {current_session(now)} :
            (current.exc = "none" /\ arg.val + 1 <= current.val)
                => (ret.exc = "none" /\ ret = get_start_year(arg.val + 1))
    /\ (op = "get_start_year" /\ 1 <= arg.val - 1) =>
        \A current \in {current_session(now)} :
            (current.exc = "none" /\ arg.val - 1 <= current.val)
                => IF arg.val <= LastCongress
                   THEN ret.exc = "none" /\ ret = get_end_year(arg.val - 1)
                   ELSE ret = Raise("KeyError")

C9_Witness ==
    /\ op = "get_start_year"
    /\ arg.val = LastCongress
    /\ current_session(now) = Ok(LastCongress)
    /\ ret.exc = "none"
    /\ ret = get_end_year(LastCongress - 1)

\* C10: calendar base case and span: start_year(0) = 1786, end_year(0) = 1789
\* and every session n >= 1 of the table ends two years after it starts.
C10_CalendarBaseAndSpan ==
    /\ (op = "get_start_year" /\ arg.val = 0) => ret = Ok(1786)
    /\ (op = "get_end_year" /\ arg.val = 0) => ret = Ok(1789)
    /\ (op = "get_end_year" /\ 1 <= arg.val /\ arg.val <= LastCongress)
            => (/\ ret.exc = "none"
                /\ get_start_year(arg.val).exc = "none"
                /\ ret.val = get_start_year(arg.val).val + 2)

C10_Witness ==
    /\ op = "get_end_year"
    /\ arg.val = LastCongress
    /\ ret.exc = "none"
    /\ ret.val = get_start_year(LastCongress).val + 2

\* The clamping at one date: None and a value at or past the year of the
\* date end as current_session() does; a value between current_session()
\* and first_valid_year returns current_session(); a negative value
\* returns `floor`.
clamped_at(date, floor) ==
    /\ (arg.none \/ arg.val >= date.year) => ret = current_session(date)
    /\ (/\ ~arg.none
        /\ current_session(date).exc = "none"
        /\ current_session(date).val < arg.val
        /\ arg.val < first_valid_year) => ret = current_session(date)
    /\ (~arg.none /\ arg.val < 0) => ret = floor

\* C31, as claimed: normalize(None) and normalize(v) for v at or past the
\* current year end as current_session() does; normalize(v) for
\* current_session() < v < first_valid_year returns current_session(); and
\* normalize(v) for every v < 0 returns 0.
C31_NormalizerClamping ==
    op = "convert_to_congress_number" =>
        \E date \in CallDates : clamped_at(date, Ok(0))

\* What holds of the clamping: the same for a call that midnight does not
\* pass during, with the floor at 0 only at a date for which
\* current_session() is defined; at a later date a negative number ends in
\* the ValueError of current_session().
C31_ClampingWhileCalendarLasts ==
    (op = "convert_to_congress_number" /\ WithinOneDay) =>
        clamped_at(now, IF current_session(now).exc = "none"
                        THEN Ok(0)
                        ELSE current_session(now))

\* C32: for every v of the calendar with first_valid_year <= v < the
\* current year, normalize(v) is the highest session number whose interval
\* [start_year, end_year] contains v; a year that ends session n and starts
\* session n + 1 normalizes to n + 1.
C32_YearToHighestSession ==
    Converted =>
        \E date \in CallDates :
            (/\ first_valid_year <= arg.val
             /\ arg.val < date.year
             /\ arg.val <= LastYear) =>
                /\ ret.exc = "none"
                /\ is_valid_number(ret.val)
                /\ _NUMBER_YEAR_MAPPING[ret.val][1] <= arg.val
                /\ arg.val <= _NUMBER_YEAR_MAPPING[ret.val][2]
                /\ \A n \in DOMAIN _NUMBER_YEAR_MAPPING :
                      (/\ _NUMBER_YEAR_MAPPING[n][1] <= arg.val
                       /\ arg.val <= _NUMBER_YEAR_MAPPING[n][2]) => n <= ret.val
                /\ \A n \in 0..(LastCongress - 1) :
                      (/\ _NUMBER_YEAR_MAPPING[n][2] = arg.val
                       /\ _NUMBER_YEAR_MAPPING[n + 1][1] = arg.val)
                          => ret.val = n + 1

\* The year 2019 ends congress 115 and starts congress 116.
C32_Witness ==
    /\ Converted
    /\ arg.val = 2019
    /\ now.year > 2019
    /\ _NUMBER_YEAR_MAPPING[115][2] = 2019
    /\ ret = Ok(116)

\* current_session() is, of the sessions whose interval contains the year
\* of the date, the lowest on January 1 and January 2 and the highest on
\* every other date.
session_of_date(date) ==
    /\ ret.exc = "none"
    /\ is_valid_number(ret.val)
    /\ _NUMBER_YEAR_MAPPING[ret.val][1] <= date.year
    /\ date.year <= _NUMBER_YEAR_MAPPING[ret.val][2]
    /\ \A n \in DOMAIN _NUMBER_YEAR_MAPPING :
          (/\ _NUMBER_YEAR_MAPPING[n][1] <= date.year
           /\ date.year <= _NUMBER_YEAR_MAPPING[n][2]) =>
               IF date.month = 1 /\ date.day \in {1, 2}
               THEN ret.val <= n
               ELSE n <= ret.val

\* C33: at a date of a calendar year, current_session() is the lowest
\* session whose interval contains the year on January 1 and January 2, and
\* the highest such session on every other date.
C33_CurrentSessionByDate ==
    op = "get_current_congress_number" =>
        \E date \in CallDates :
            (first_valid_year <= date.year /\ date.year <= LastYear)
                => session_of_date(date)

\* What holds of current_session(): the same for a call that midnight does
\* not pass during.
C33_SessionWithinOneDay ==
    (/\ op = "get_current_congress_number"
     /\ WithinOneDay
     /\ first_valid_year <= now.year
     /\ now.year <= LastYear) => session_of_date(now)

----------------------------------------------------------------------------
(* The year range of a year, and the congress record built from a year or   *)
(* a number. Neither reads the clock.                                       *)

YearInit ==
    /\ ExtIdle
    /\ now = [year |-> 2020, month |-> 6, day |-> 1]
    /\ clock = <<>>
    /\ op = "none"
    /\ arg = None
    /\ ret = Ok(0)
    /\ MergeIdle
    /\ MemberIdle
    /\ RosterIdle

CallYearRange ==
    /\ op = "none"
    /\ \E y \in IntArgs :
         /\ op' = "get_year_range_by_year"
         /\ arg' = Some(y)
         /\ ret' = Ok(get_year_range_by_year(y))
         /\ UNCHANGED <<now, clock, mergevars, membervars, rostervars, extvars>>

CallCongressRecord ==
    /\ op = "none"
    /\ \E n \in IntArgs :
         /\ op' = "BioguideCongressRecord"
         /\ arg' = Some(n)
         /\ ret' = BioguideCongressRecord_init(n, <<>>)
         /\ UNCHANGED <<now, clock, mergevars, membervars, rostervars, extvars>>

YearNext == CallYearRange \/ CallCongressRecord

SpecYear == YearInit /\ [][YearNext]_vars

\* A year that ends one congress of the table and starts the next.
SharedBoundaryYear(y) ==
    \E n \in 0..(LastCongress - 1) :
        _NUMBER_YEAR_MAPPING[n][2] = y /\ _NUMBER_YEAR_MAPPING[n + 1][1] = y

\* C34: for a year y covered by the calendar, year_range_for(y) is
\* (start_year(m), end_year(m)) with m the highest session containing y;
\* two sessions contain y exactly when y is a shared boundary year, they are
\* adjacent, and the later one's interval is returned; a session record
\* built from a year carries the years of its own session number.
C34_YearRangeOfHighestSession ==
    (/\ op \in {"get_year_range_by_year", "BioguideCongressRecord"}
     /\ arg.val >= first_valid_year
     /\ get_congress_numbers(arg.val) # {}) =>
        \A m \in {py_max(get_congress_numbers(arg.val))} :
            /\ op = "get_year_range_by_year" =>
                  /\ ~ret.val.none
                  /\ ret.val.val = <<get_start_year(m).val, get_end_year(m).val>>
            /\ Cardinality(get_congress_numbers(arg.val)) \in {1, 2}
            /\ Cardinality(get_congress_numbers(arg.val)) = 2
                  <=> SharedBoundaryYear(arg.val)
            /\ Cardinality(get_congress_numbers(arg.val)) = 2 =>
                  get_congress_numbers(arg.val) = {m - 1, m}
            /\ op = "BioguideCongressRecord" =>
                  /\ ret.exc = "none"
                  /\ ret.val.number = m
                  /\ ret.val.start_year = get_start_year(ret.val.number).val
                  /\ ret.val.end_year = get_end_year(ret.val.number).val

\* 1789 ends congress 0 and starts congress 1: the record built from it is
\* congress 1 with the years 1789 to 1791.
C34_Witness ==
    /\ op = "BioguideCongressRecord"
    /\ arg.val = 1789
    /\ get_congress_numbers(1789) = {0, 1}
    /\ ret.exc = "none"
    /\ ret.val.number = 1
    /\ ret.val.start_year = 1789
    /\ ret.val.end_year = 1791

----------------------------------------------------------------------------
(* The name fields: BioguideMemberRecord is built from a document whose    *)
(* firstnames element is drawn from given names, middle names, suffixes    *)
(* and nicknames in both orders.                                           *)

GivenNames ==
    {<<"A", "l">>,
     <<"I", "d", "a">>,
     <<"J", "o", "s", "U+00E9">>}
MiddleNames ==
    {<<>>,
     <<" ", "I", "v", "a", "n">>,
     <<" ", "I", "r", "a">>}
NameSuffixes ==
    {<<>>,
     <<" ", "J", "r">>,
     <<",", " ", "J", "r", ".">>,
     <<" ", "S", "r">>,
     <<",", " ", "S", "r", ".">>,
     <<" ", "I">>,
     <<" ", "I", "I">>,
     <<" ", "I", "I", "I">>,
     <<" ", "I", "V">>}
Nicknames ==
    {<<>>,
     <<" ", "(", "T", "e", "d", ")">>,
     <<" ", "(", "G", ".", " ", "K", ".", ")">>,
     <<" ", "(", "P", "e", "p", "U+00E9", ")">>}

FirstNames ==
    {g \o mid \o suf \o nick :
        g \in GivenNames, mid \in MiddleNames, suf \in NameSuffixes,
        nick \in Nicknames}
    \cup {g \o mid \o nick \o suf :
        g \in GivenNames, mid \in MiddleNames, suf \in NameSuffixes,
        nick \in Nicknames}
    \cup {<<lead>> \o g \o suf \o <<" ">> :
        lead \in {" ", "U+00A0"}, g \in GivenNames, suf \in NameSuffixes}

\* A document with the name elements only.
name_document(firstnames) ==
    [id |-> <<"W", "1">>, firstnames |-> firstnames,
     lastname |-> <<"D", "O", "E">>, terms |-> <<>>]

NameInit ==
    /\ ExtIdle
    /\ now = [year |-> 2020, month |-> 6, day |-> 1]
    /\ clock = <<>>
    /\ op = "none"
    /\ arg = None
    /\ ret = Ok(0)
    /\ MergeIdle
    /\ MemberIdle
    /\ RosterIdle

\* BioguideMemberRecord(xml_data)
CallMemberRecord ==
    /\ op = "none"
    /\ \E firstnames \in FirstNames :
         /\ op' = "BioguideMemberRecord"
         /\ arg' = Some(firstnames)
         /\ ret' = BioguideMemberRecord(name_document(firstnames))
         /\ UNCHANGED <<now, clock, mergevars, membervars, rostervars, extvars>>

NameNext == CallMemberRecord

SpecName == NameInit /\ [][NameNext]_vars

\* The generational tokens, with and without the period of Jr. and Sr.
GenerationalTokens ==
    {<<"J", "r">>,
     <<"J", "r", ".">>,
     <<"S", "r">>,
     <<"S", "r", ".">>,
     <<"I">>,
     <<"I", "I">>,
     <<"I", "I", "I">>,
     <<"I", "V">>}

ends_with(text, tail) ==
    /\ Len(tail) <= Len(text)
    /\ str_slice[text, Len(text) - Len(tail) + 1, Len(text)] = tail

\* The text, and the text before its closing parenthetical when it has one.
name_bodies(text) ==
    {text} \cup
    {str_slice[text, 1, i - 1] : i \in
        {k \in 2..Len(text) :
            /\ text[k] = " "
            /\ char_at(text, k + 1) = "("
            /\ text[Len(text)] = ")"
            /\ \A j \in (k + 2)..(Len(text) - 1) : text[j] \notin {"(", ")"}}}

\* A generational token trails the name after a comma or a space: it ends
\* the field, or only the parenthetical nickname follows it.
HasTrailingSuffix(text) ==
    \E body \in name_bodies(text), token \in GenerationalTokens :
        \/ ends_with(body, <<",", " ">> \o token)
        \/ ends_with(body, <<" ">> \o token)

\* C35, as claimed: the suffix is taken only when a generational token
\* trails the first-name field after a comma or space; a field without a
\* trailing suffix gives suffix None and the first name is the field minus
\* the parenthetical nickname, otherwise unchanged.
C35_SuffixOnlyWhenTrailing ==
    (op = "BioguideMemberRecord" /\ ret.exc = "none") =>
        \A stripped \in {str_strip[arg.val]} :
            /\ ret.val.suffix # NoneStr => HasTrailingSuffix(stripped)
            /\ ~HasTrailingSuffix(stripped) =>
                  /\ ret.val.suffix = NoneStr
                  /\ ret.val.first_name = re_sub[nickname_pattern, stripped]

\* What holds of the suffix: it is the token of the leftmost match of the
\* pattern anywhere in the stripped field, every match is removed before
\* the nickname is looked for, and a field the pattern matches nowhere
\* keeps its text but for the nickname.
C35_SuffixWhereverThePatternMatches ==
    (op = "BioguideMemberRecord" /\ ret.exc = "none") =>
        \A stripped \in {str_strip[arg.val]} :
            LET starts == {i \in 1..Len(stripped) :
                              suffix_match_at(stripped, i).len > 0}
            IN  /\ starts = {} =>
                      /\ ret.val.suffix = NoneStr
                      /\ ret.val.first_name = re_sub[nickname_pattern, stripped]
                /\ starts # {} =>
                      /\ ret.val.suffix \in GenerationalTokens
                      /\ ret.val.suffix =
                            suffix_match_at(stripped, py_min(starts)).group
                      /\ ret.val.first_name =
                            re_sub[nickname_pattern,
                                   re_sub[suffix_pattern, stripped]]
                /\ HasTrailingSuffix(stripped) => starts # {}

----------------------------------------------------------------------------
(* Properties of the term merge.                                           *)

NonExecutive(term) == term.position \notin {"vice president", "president"}

\* C3: presiding-officer precedence: two raw terms of one session and one
\* party, one "speaker of the house" and one "representative", in either
\* order, merge into a single record of that session with position
\* "representative" and is_presiding_officer true.
C3_PresidingOfficerPrecedence ==
    (/\ mpc = "returned"
     /\ Len(raw_terms) = 2
     /\ raw_terms[1].congress_number = raw_terms[2].congress_number
     /\ raw_terms[1].party = raw_terms[2].party
     /\ {raw_terms[1].position, raw_terms[2].position}
            = {"speaker of the house", "representative"})
        => /\ Len(merged_terms) = 1
           /\ merged_terms[1].congress_number = raw_terms[1].congress_number
           /\ merged_terms[1].position = "representative"
           /\ merged_terms[1].speaker_of_the_house

C3_Witness ==
    /\ mpc = "returned"
    /\ Len(raw_terms) = 2
    /\ raw_terms[1].congress_number = raw_terms[2].congress_number
    /\ raw_terms[1].party = raw_terms[2].party
    /\ raw_terms[1].position = "speaker of the house"
    /\ raw_terms[2].position = "representative"
    /\ Len(merged_terms) = 1
    /\ merged_terms[1].position = "representative"
    /\ merged_terms[1].speaker_of_the_house

\* C4: executive roles are discarded: no merged record has the position
\* "president" or "vice president", and the result of the loop equals the
\* merge of the raw terms with those terms removed.
C4_ExecutiveRolesDiscarded ==
    mpc = "returned" =>
        /\ \A k \in 1..Len(merged_terms) : NonExecutive(merged_terms[k])
        /\ merged_terms = _merge_terms(SelectSeq(raw_terms, NonExecutive))

C4_Witness ==
    /\ mpc = "returned"
    /\ Len(raw_terms) = 3
    /\ raw_terms[1].position = "vice president"
    /\ raw_terms[2].position = "representative"
    /\ raw_terms[3].position = "president"
    /\ raw_terms[1].congress_number = raw_terms[2].congress_number
    /\ Len(merged_terms) = 1
    /\ merged_terms[1] = raw_terms[2]

\* C5: the merge returns exactly one record for each session number that
\* occurs among the non-executive raw terms and none for any other.
C5_OneRecordPerSession ==
    mpc = "returned" =>
        \A n \in DOMAIN _NUMBER_YEAR_MAPPING :
            Cardinality({k \in 1..Len(merged_terms) :
                            merged_terms[k].congress_number = n})
                = IF \E i \in 1..Len(raw_terms) :
                        /\ NonExecutive(raw_terms[i])
                        /\ raw_terms[i].congress_number = n
                  THEN 1
                  ELSE 0

C5_Witness ==
    /\ mpc = "returned"
    /\ Len(raw_terms) = 3
    /\ raw_terms[1].congress_number = 1
    /\ raw_terms[2].congress_number = 2
    /\ raw_terms[3].congress_number = 1
    /\ raw_terms[1].party # raw_terms[3].party
    /\ \A i \in 1..3 : NonExecutive(raw_terms[i])
    /\ Len(merged_terms) = 2

----------------------------------------------------------------------------
(* Properties of CongressMember.                                           *)

\* A valid person record: a non-empty identifier, first name and last name
\* and at least one term.
ValidRecord(record) ==
    /\ truthy(record.bioguide_id)
    /\ truthy(record.first_name)
    /\ truthy(record.last_name)
    /\ Len(record.terms) >= 1

\* C2: invariant rejection: a member object never holds a person record with
\* no terms or with an empty identifier, first name or last name, whichever
\* path attached it (load, update, the setter, roster construction).
C2_NoInvalidRecordStored ==
    member._bg # NoneRecord => ValidRecord(member._bg)

----------------------------------------------------------------------------
(* Properties of the congress lookups.                                     *)

\* C1: cross-lookup equivalence: two lookups whose arguments normalize to the
\* same congress number, made against an unchanged registry, load congress
\* records that are equal (same number, equal member lists), whatever the
\* interleaving of the worker threads.
C1_CrossLookupEquivalence ==
    (/\ Len(results) = 2
     /\ results[1].number = results[2].number)
        => congress_eq(results[1], results[2])

\* The two lookups of one congress hold the same members, whatever the order.
C1_SameMembers ==
    (/\ Len(results) = 2
     /\ results[1].number = results[2].number)
        => congress_eq_unordered(results[1], results[2])

----------------------------------------------------------------------------
(* Properties of the text functions.                                       *)

\* The name starts with an upper-case, a lower-case and an upper-case letter.
HasNamePrefix(text) ==
    /\ Len(text) >= 3
    /\ is_upper(text[1])
    /\ is_lower(text[2])
    /\ is_upper(text[3])

\* A letter that str.lower() changes, and one that str.upper() changes.
is_upper_letter(c) == char_lower(c) # <<c>>
is_lower_letter(c) == char_upper(c) # <<c>>

\* C20: fix_last_name_casing keeps the first three characters of a name that
\* starts upper-lower-upper and otherwise only the first character, and
\* lower-cases every character after them; 'McLASTNAME' becomes 'McLastname'
\* and an all-uppercase surname comes back in title case.
C20_NameCasing ==
    ~fixed_last_name.none =>
        /\ LET kept == IF HasNamePrefix(last_name) THEN 3 ELSE 1
           IN  fixed_last_name.val =
                  str_slice[last_name, 1, kept]
                     \o str_lower[str_slice[last_name, kept + 1, Len(last_name)]]
        /\ last_name = McLASTNAME =>
              fixed_last_name.val =
                 <<"M", "c", "L", "a", "s", "t", "n", "a", "m", "e">>
        /\ (last_name # <<>> /\ \A i \in 1..Len(last_name) : is_upper_letter(last_name[i])) =>
              /\ fixed_last_name.val[1] = last_name[1]
              /\ \A i \in 2..Len(fixed_last_name.val) :
                    is_lower_letter(fixed_last_name.val[i])

\* The test's name has been cased, keeping its 'McL'.
C20_Witness ==
    /\ last_name = McLASTNAME
    /\ ~fixed_last_name.none
    /\ fixed_last_name.val[3] = "L"
    /\ fixed_last_name.val[4] = "a"

----------------------------------------------------------------------------
(* Properties of the option validators.                                    *)

\* C16: is_valid_bioguide_position, is_valid_bioguide_party and
\* is_valid_bioguide_state return true for every value of option.Position,
\* option.Party.Current and option.State ('Representative', 'Democrat',
\* 'GA') and false for a value that no option class enumerates ('123456').
C16_ValidatorsAcceptEnumeratedValues ==
    (validator # "none" /\ ~value.none) =>
        /\ (/\ validator = "is_valid_bioguide_position"
            /\ value.val \in option_values(Position)) => valid
        /\ (/\ validator = "is_valid_bioguide_party"
            /\ value.val \in option_values(PartyCurrent)) => valid
        /\ (/\ validator = "is_valid_bioguide_state"
            /\ value.val \in option_values(State)) => valid
        /\ (/\ validator = "is_valid_bioguide_position"
            /\ value.val \notin option_values(Position)) => ~valid
        /\ (/\ validator = "is_valid_bioguide_party"
            /\ value.val \notin option_values(PartyCurrent)
            /\ value.val \notin option_values(PartyHistorical)
            /\ value.val \notin option_values(PartyErrors)) => ~valid
        /\ (/\ validator = "is_valid_bioguide_state"
            /\ value.val \notin option_values(State)) => ~valid

----------------------------------------------------------------------------
(* Properties of the member search.                                        *)

\* The request kinds whose loop retries.
RetriedRequests == {"send", "page", "doc"}

\* C12: a search POST, a page GET or a document GET that keeps failing is
\* sent again at most MAX_REQUEST_ATTEMPTS times and then ends in
\* BioguideConnectionError; the retries counted against a request are those
\* of this request alone.
C12_RetryCeiling ==
    /\ \A kind \in RetriedRequests :
          issued[kind] <= MAX_REQUEST_ATTEMPTS + 1
    /\ search_exc.exc = "BioguideConnectionError" =>
          /\ search_exc.at \in RetriedRequests
          /\ issued[search_exc.at] = MAX_REQUEST_ATTEMPTS + 1
          /\ attempts[search_exc.at] = MAX_REQUEST_ATTEMPTS
    /\ spc = "send" => attempts.send = issued.send
    /\ spc = "page" => attempts.page = issued.page
    /\ spc = "doc" => attempts.doc = issued.doc
    /\ (spc = "refresh" \/ (spc = "send" /\ send_return = "page")) =>
          attempts.page = issued.page - 1

\* The second document of a two-page result ran out of retries after the
\* first document and the second page had been fetched.
C12_Witness ==
    /\ search_exc = [exc |-> "BioguideConnectionError", at |-> "doc"]
    /\ doc_idx = 2
    /\ Len(search_records) = 1
    /\ issued.doc = MAX_REQUEST_ATTEMPTS + 1
    /\ "page GET" \in requested

\* The errors of the filters that are not among the known values.
invalid_filter_errors(args) ==
    {e \in {"InvalidPositionError", "InvalidPartyError", "InvalidStateError",
            "InvalidCongressError"} :
        \/ /\ e = "InvalidPositionError"
           /\ ~args.pos.none
           /\ args.pos.val \notin option_values(Position)
        \/ /\ e = "InvalidPartyError"
           /\ ~args.party.none
           /\ args.party.val \notin
                 (option_values(PartyCurrent) \cup option_values(PartyErrors))
                     \cup option_values(PartyHistorical)
        \/ /\ e = "InvalidStateError"
           /\ ~args.state.none
           /\ args.state.val \notin option_values(State)
        \/ /\ e = "InvalidCongressError"
           /\ ~args.congress.none
           /\ ~is_valid_number(args.congress.val)}

\* C15: when a position, party, state or session filter is not among the
\* known values, the search raises the error of such a filter and has sent
\* no request (token GET, search POST, page GET, document GET) before it.
C15_FailFastOnInvalidFilters ==
    (spc # "start" /\ invalid_filter_errors(search_args) # {}) =>
        /\ spc = "raised"
        /\ search_exc.exc \in invalid_filter_errors(search_args)
        /\ requested = {}

\* Whenever one of the four checks raises, no request has been sent.
C15_RaisedBeforeAnyRequest ==
    search_exc.at = "filters" => requested = {}

----------------------------------------------------------------------------
(* Properties of the roster fetch and its worker pool.                     *)

\* The bioguide_id of each record of a member list, in list order.
ids_of(members) == [i \in 1..Len(members) |-> members[i].bioguide_id]

\* How often x occurs in a list.
occurrences(list, x) == Cardinality({i \in 1..Len(list) : list[i] = x})

\* The two lists hold the same elements, each as often as the other.
same_multiset(a, b) ==
    /\ Len(a) = Len(b)
    /\ \A i \in 1..Len(a) : occurrences(a, a[i]) = occurrences(b, a[i])

\* The elements of a list, each at the place of its first occurrence.
RECURSIVE first_seen(_)
first_seen(list) ==
    IF list = <<>>
    THEN <<>>
    ELSE LET front == first_seen(SubSeq(list, 1, Len(list) - 1))
             last == list[Len(list)]
         IN  IF occurrences(front, last) > 0
             THEN front
             ELSE Append(front, last)

\* C11: the member list of a loaded session holds each bioguide_id at most
\* once, in the order the identifiers were first seen, also when an
\* identifier is listed on several result pages or by both searches made
\* for session 0.
C11_MembersDeduplicated ==
    \A r \in 1..Len(results) :
        /\ \A i, j \in 1..Len(results[r].members) :
              i # j =>
                 results[r].members[i].bioguide_id #
                    results[r].members[j].bioguide_id
        /\ ids_of(results[r].members) =
              first_seen(congress_bioguide_ids(results[r].number))

\* C13: after the fetch of one member has failed, the roster call goes on
\* to completion: while a call is in progress, the calling thread or a
\* worker thread can take a step.
C13_FailureStaysLocal ==
    main_pc \in {"put", "cleanup"} => ENABLED RosterStep

\* C14: an interrupt while identifiers are put or awaited ends the fetch
\* without a record, and any member list that is returned holds a record
\* for each identifier submitted.
C14_InterruptAbortsFetch ==
    [][/\ (main_pc = "exited" \/ main_pc' = "exited") => results' = results
       /\ results' # results =>
             /\ same_multiset(ids_of(member_records), bioguide_ids)
             /\ results' =
                   Append(results,
                          BioguideCongressRecord(_number, member_records))]_vars

\* The interrupt came when one of several identifiers had been resolved.
C14_Witness ==
    /\ main_pc = "exited"
    /\ Len(member_records) = 1
    /\ Len(bioguide_ids) > 1
    /\ results = <<>>

\* C19: a returned member list holds one record for each identifier handed
\* to the pool (the same identifiers, each as often as submitted), and the
\* calling thread leaves q.join() only when every identifier is resolved.
C19_OneRecordPerIdentifier ==
    /\ \A r \in 1..Len(results) :
          same_multiset(ids_of(results[r].members),
                        congress_bioguide_ids(results[r].number))
    /\ main_pc = "cleanup" =>
          /\ Len(member_records) = Len(bioguide_ids)
          /\ q.ids = <<>>
          /\ \A w \in DOMAIN workers :
                workers[w].pc \notin {"query", "task_done"}

\* The three members of congress 116 (B2, A1, C3 in the index) were
\* returned in the order A1, C3, B2.
C19_Witness ==
    /\ Len(results) = 1
    /\ results[1].number = 116
    /\ ids_of(results[1].members) = <<<<"A", "1">>, <<"C", "3">>, <<"B", "2">>>>

\* C29: the entries waiting in the queue never exceed its maximum size of
\* twice the number of worker threads, and while the queue is full the
\* calling thread cannot put: it waits until a worker has taken an entry.
C29_QueueBounded ==
    /\ qsize(q) <= NUMBER_OF_THREADS * 2
    /\ qsize(q) = NUMBER_OF_THREADS * 2
          => (~ENABLED MainPut /\ ~ENABLED MainPutSentinel)

\* The queue is full while the calling thread has identifiers left to put.
C29_Witness ==
    /\ main_pc = "put"
    /\ qsize(q) = NUMBER_OF_THREADS * 2
    /\ put_idx <= Len(bioguide_ids)

----------------------------------------------------------------------------
(* Properties of one step of the term merge.                               *)

\* The loop of _merge_terms is about to take the raw term `raw_terms[idx]`
\* and the dict holds an entry of that term's congress.
IncomingMeetsStored ==
    /\ mpc = "loop"
    /\ idx <= Len(raw_terms)
    /\ NonExecutive(raw_terms[idx])
    /\ lookup_term(merged_terms, raw_terms[idx].congress_number) # 0

\* The dict entry of the incoming term's congress, before and after the step.
stored == merged_terms[lookup_term(merged_terms, raw_terms[idx].congress_number)]
stored_after == merged_terms'[lookup_term(merged_terms, raw_terms[idx].congress_number)]

\* C22: when the incoming term has the congress number of a stored entry and
\* another party, the step replaces the entry by the incoming term: after it
\* the entry's party, state, position and speaker flag are the incoming
\* term's.
C22_PartyChangeReplaces ==
    [][(IncomingMeetsStored /\ stored.party # raw_terms[idx].party)
          => /\ stored_after.party = raw_terms[idx].party
             /\ stored_after.state = raw_terms[idx].state
             /\ stored_after.position = raw_terms[idx].position
             /\ stored_after.speaker_of_the_house
                    = raw_terms[idx].speaker_of_the_house
             /\ Len(merged_terms') = Len(merged_terms)]_vars

\* A representative of one party and state was stored, flagged as speaker,
\* and then replaced by a term of the other party and the other state.
C22_Witness ==
    /\ idx = 4
    /\ raw_terms[1].congress_number = 1
    /\ raw_terms[2].congress_number = 1
    /\ raw_terms[3].congress_number = 1
    /\ raw_terms[1].position = "representative"
    /\ raw_terms[2].position = "speaker of the house"
    /\ raw_terms[3].position = "representative"
    /\ raw_terms[1].party = raw_terms[2].party
    /\ raw_terms[3].party # raw_terms[1].party
    /\ raw_terms[3].state # raw_terms[1].state
    /\ Len(merged_terms) = 1
    /\ merged_terms[1] = raw_terms[3]

\* The raw terms taken so far that are not executive and have the number.
taken_of_session(congress_number) ==
    {i \in 1..(idx - 1) :
        /\ raw_terms[i].congress_number = congress_number
        /\ raw_terms[i].position \notin {"vice president", "president"}}

\* C36: after the merge (and after every step of it, for the raw terms
\* taken so far) the record of each session number has the party of the
\* last non-executive raw term, in source order, with that session number.
C36_PartyOfLastTerm ==
    mpc \in {"loop", "returned"} =>
        /\ \A k \in 1..Len(merged_terms) :
              /\ taken_of_session(merged_terms[k].congress_number) # {}
              /\ merged_terms[k].party =
                    raw_terms[py_max(taken_of_session(
                        merged_terms[k].congress_number))].party
        /\ \A n \in TermCongresses :
              taken_of_session(n) # {} =>
                  lookup_term(merged_terms, n) # 0

\* Three raw terms of congress 1 were merged: a representative of one party,
\* a representative of the other, and a president of the first party; the
\* record has the second term's party.
C36_Witness ==
    /\ mpc = "returned"
    /\ Len(raw_terms) = 3
    /\ \A i \in 1..3 : raw_terms[i].congress_number = 1
    /\ raw_terms[1].position = "representative"
    /\ raw_terms[2].position = "representative"
    /\ raw_terms[3].position = "president"
    /\ raw_terms[1].party = "democrat"
    /\ raw_terms[2].party = "republican"
    /\ raw_terms[3].party = "democrat"
    /\ Len(merged_terms) = 1
    /\ merged_terms[1].party = "republican"

\* The dict as it was before the step that took raw_terms[idx - 1].
merged_before == _merge_terms(SubSeq(raw_terms, 1, idx - 2))

\* The step just taken met a stored entry of the same party whose position
\* text was not "speaker of the house", with an incoming speaker term.
SpeakerMetStored ==
    /\ idx >= 2
    /\ raw_terms[idx - 1].position = "speaker of the house"
    /\ lookup_term(merged_before, raw_terms[idx - 1].congress_number) # 0
    /\ merged_before[lookup_term(merged_before,
            raw_terms[idx - 1].congress_number)].party
          = raw_terms[idx - 1].party
    /\ merged_before[lookup_term(merged_before,
            raw_terms[idx - 1].congress_number)].position
          # "speaker of the house"

\* C23: when the incoming term is a "speaker of the house" term and the
\* stored entry of its congress, of the same party, has another position
\* text, the step sets the entry's speaker flag and leaves its position text
\* as it was, whatever earlier steps did to the entry.
C23_IncomingSpeakerFlagsOnly ==
    SpeakerMetStored =>
        /\ merged_terms[lookup_term(merged_before,
                raw_terms[idx - 1].congress_number)].speaker_of_the_house
        /\ merged_terms[lookup_term(merged_before,
                raw_terms[idx - 1].congress_number)].position
              = merged_before[lookup_term(merged_before,
                    raw_terms[idx - 1].congress_number)].position

\* C24: when the non-executive raw terms of a congress hold a "speaker of
\* the house" term and a term of another position, the merged record of that
\* congress has a position text other than "speaker of the house" and the
\* speaker flag set.
C24_RoleKeptSpeakerFlagged ==
    mpc = "returned" =>
        \A n \in TermCongresses :
            (/\ \E i \in 1..Len(raw_terms) :
                    /\ raw_terms[i].congress_number = n
                    /\ raw_terms[i].position = "speaker of the house"
             /\ \E i \in 1..Len(raw_terms) :
                    /\ raw_terms[i].congress_number = n
                    /\ NonExecutive(raw_terms[i])
                    /\ raw_terms[i].position # "speaker of the house")
                => /\ lookup_term(merged_terms, n) # 0
                   /\ merged_terms[lookup_term(merged_terms, n)].position
                         # "speaker of the house"
                   /\ merged_terms[lookup_term(merged_terms, n)]
                         .speaker_of_the_house

----------------------------------------------------------------------------------------------------------------------------------------
(* Properties of one fetch of a member document.                           *)

\* The fetch has ended after a GET was answered with a text that the strict
\* parse rejects.
downloaded_text == response_text(fetch.bioguide_id)

\* Two calls ended alike: with the same exception, or with the same value.
SameOutcome(a, b) == a.exc = b.exc /\ (a.exc = "none" => a.val = b.val)

StrictParseFailed ==
    /\ fetch.pc \in {"returned", "raised"}
    /\ fetch.answered = 1
    /\ fromstring(downloaded_text).exc = "ParseError"

\* C28: for one fetch, a strict-parse failure is followed by exactly one
\* cleaning and one more parse of the text already downloaded, with no GET
\* beyond the one that was answered and those that failed before it; when
\* the second parse succeeds the fetch ends with what the record
\* construction makes of the cleaned text, when it fails the fetch ends
\* with ParseError; and nothing more is attempted.  A text that parses is
\* not cleaned.
C28_OneCleanAndReparse ==
    /\ StrictParseFailed =>
          /\ fetch.cleaned = 1
          /\ fetch.parses = 2
          /\ fetch.answered = 1
          /\ fetch.gets = fetch.attempts + 1
          /\ ~ENABLED FetchNext
          /\ fromstring(clean_xml(downloaded_text)).exc = "none" =>
                /\ SameOutcome(fetch.ret,
                               BioguideMemberRecord(clean_xml(downloaded_text)))
                /\ BioguideMemberRecord(clean_xml(downloaded_text)).exc
                      = "none" =>
                      /\ fetch.pc = "returned"
                      /\ fetch.ret.val.last_name =
                            fix_last_name_casing(
                               str_strip[clean_text[downloaded_text.lastname]])
          /\ fromstring(clean_xml(downloaded_text)).exc # "none" =>
                /\ fetch.pc = "raised"
                /\ fetch.ret.exc = "ParseError"
    /\ (/\ fetch.answered = 1
        /\ fromstring(downloaded_text).exc = "none") =>
          /\ fetch.cleaned = 0
          /\ fetch.parses = 1
          /\ SameOutcome(fetch.ret, BioguideMemberRecord(downloaded_text))

\* A fetch whose first GET failed and whose second was answered with a text
\* holding a control character and a bar: the record returned has neither.
C28_Witness ==
    /\ StrictParseFailed
    /\ fetch.pc = "returned"
    /\ fetch.gets = 2
    /\ downloaded_text.firstnames = <<"A", "|", "U+0001", "l">>
    /\ downloaded_text.lastname = <<"D", "U+0001", "O", "E">>
    /\ fetch.ret.val.first_name = <<"A", "l">>
    /\ fetch.ret.val.last_name = <<"D", "o", "e">>

----------------------------------------------------------------------------
(* Properties of the roster crawl.                                         *)

\* The requests of the log of one kind, and those of them that were
\* answered.
sent_requests(kind) ==
    {i \in 1..Len(crawl.log) : crawl.log[i].kind = kind}
answered_requests(kind) == {i \in sent_requests(kind) : crawl.log[i].ok}

IndexHit == exists_in_congress_index(crawl.index, crawl.congress_number)

\* C21: when the index holds the congress, _query_bioguide_by_number takes
\* the identifiers from it and sends no request to the site; only when the
\* index lacks the congress does it start the crawl; and no step changes
\* the index.
C21_IndexHitSendsNothing ==
    [][/\ crawl'.index = crawl.index
       /\ IndexHit =>
             /\ crawl'.log = <<>>
             /\ crawl'.pc = "returned"
             /\ crawl'.ret.exc = "none"
             /\ crawl'.ret.val =
                   lookup_bioguide_ids(crawl.index, crawl.congress_number)
       /\ (~IndexHit /\ crawl.pc = "called") => crawl'.pc = "token"
       /\ crawl'.log # <<>> => ~IndexHit]_vars

\* The roster of congress 116 came out of the index without a request.
C21_Witness ==
    /\ crawl.pc = "returned"
    /\ crawl.congress_number = 116
    /\ IndexHit
    /\ crawl.log = <<>>
    /\ crawl.ret.val = <<<<"B", "2">>, <<"A", "1">>, <<"C", "3">>>>

\* The request that follows request i and is of its kind: the retry of a
\* failed request.
retry_of(i) ==
    py_min({j \in (i + 1)..Len(crawl.log) :
               crawl.log[j].kind = crawl.log[i].kind})
Retried ==
    {i \in 1..Len(crawl.log) :
        /\ ~crawl.log[i].ok
        /\ \E j \in (i + 1)..Len(crawl.log) :
              crawl.log[j].kind = crawl.log[i].kind}

\* C25: every retry after a failed request is preceded by an answered GET
\* of a fresh verification token, and the retried request carries the new
\* token or the new cookies, not those of the failed request.
C25_RetryAfterFreshToken ==
    \A i \in Retried :
        /\ \E k \in (i + 1)..(retry_of(i) - 1) :
              crawl.log[k].kind = "token GET" /\ crawl.log[k].ok
        /\ crawl.log[i].kind = "search POST" =>
              crawl.log[retry_of(i)].token # crawl.log[i].token
        /\ crawl.log[i].kind = "page GET" =>
              crawl.log[retry_of(i)].cookie # crawl.log[i].cookie

\* What holds of the retries: a page GET is retried after a fresh token
\* and a new POST, with the cookies of that POST; a POST is retried at once
\* with the token of the failed POST.
C25_OnlyPageRetriesRefresh ==
    \A i \in Retried :
        /\ crawl.log[i].kind = "page GET" =>
              /\ \E k \in (i + 1)..(retry_of(i) - 1) :
                    crawl.log[k].kind = "token GET" /\ crawl.log[k].ok
              /\ crawl.log[retry_of(i)].cookie > crawl.log[i].cookie
        /\ (/\ crawl.log[i].kind = "search POST"
            /\ crawl.log[i + 1].kind = "search POST") =>
              /\ retry_of(i) = i + 1
              /\ crawl.log[i + 1].token = crawl.log[i].token

\* C26: when the root page has no token input, the GET of the root page is
\* followed by TypeError out of the constructor of the query; the query
\* never holds a token and no search POST is sent.
C26_NoTokenInputNoPost ==
    ~crawl.site.token_input =>
        /\ crawl.verification_token = 0
        /\ sent_requests("search POST") = {}
        /\ crawl.pc # "send"
        /\ answered_requests("token GET") # {} =>
              /\ crawl.pc = "raised"
              /\ crawl.ret.exc = "TypeError"
              /\ Len(crawl.log) = 1

\* The root page without the input was fetched and the crawl has ended.
C26_Witness ==
    /\ ~crawl.site.token_input
    /\ answered_requests("token GET") = {1}
    /\ crawl.pc = "raised"
    /\ crawl.ret.exc = "TypeError"

\* C27: when the first page of the results has no pagination control, the
\* final page number is 1: the identifiers are those of the POST response
\* (for congress 0, of the two POST responses) and no page GET is sent.
C27_NoControlOnePage ==
    crawl.site.pagination = NoPagination =>
        /\ sent_requests("page GET") = {}
        /\ answered_requests("search POST") # {} => crawl.final_page_num = 1
        /\ (crawl.pc = "returned" /\ crawl.log # <<>>) =>
              /\ crawl.ret.exc = "none"
              /\ crawl.ret.val =
                    IF crawl.congress_number = 0
                    THEN page_ids(crawl.site.pages, 1) \o <<<<"A", "1">>>>
                    ELSE page_ids(crawl.site.pages, 1)

\* A site that would serve a second page, but whose first page has no
\* control: only the identifiers of the first page are returned.
C27_Witness ==
    /\ crawl.site.pagination = NoPagination
    /\ crawl.site.pages = TwoPages
    /\ crawl.congress_number = 116
    /\ crawl.pc = "returned"
    /\ Len(crawl.log) = 2
    /\ crawl.ret.val = <<<<"B", "2">>, <<"A", "1">>>>

\* C30: a search POST is sent only with a token that a GET of the root
\* page has delivered, the latest one; a page GET is sent only after a POST
\* was answered, with the cookies of the latest answer and for a page
\* after the first.
C30_TokenThenPostThenPages ==
    /\ \A i \in sent_requests("search POST") :
          /\ crawl.log[i].token # 0
          /\ crawl.log[i].token =
                Cardinality({j \in answered_requests("token GET") : j < i})
    /\ \A i \in sent_requests("page GET") :
          /\ crawl.log[i].cookie # 0
          /\ crawl.log[i].cookie =
                Cardinality({j \in answered_requests("search POST") : j < i})
          /\ crawl.log[i].page >= 2
    /\ crawl.pc = "send" => crawl.verification_token # 0
    /\ crawl.pc = "page" => crawl.cookie_jar # 0

\* A crawl of four requests: the token, a POST that failed, the POST again
\* and the second page.
C30_Witness ==
    /\ crawl.pc = "returned"
    /\ Len(crawl.log) = 4
    /\ crawl.log[1].kind = "token GET"
    /\ crawl.log[2].kind = "search POST" /\ ~crawl.log[2].ok
    /\ crawl.log[3].kind = "search POST" /\ crawl.log[3].ok
    /\ crawl.log[4].kind = "page GET" /\ crawl.log[4].ok

\* The member links of the pages 1..k, page after page.
RECURSIVE ids_of_pages(_, _)
ids_of_pages(pages, k) ==
    IF k <= 0 THEN <<>> ELSE ids_of_pages(pages, k - 1) \o page_ids(pages, k)

\* The pages of the page GETs that were answered, in the order of the log.
pages_got ==
    LET got == SelectSeq(crawl.log,
                         LAMBDA r : r.kind = "page GET" /\ r.ok)
    IN  [i \in 1..Len(got) |-> got[i].page]

\* The thread is in the page loop, between two passes: a page GET is out,
\* or the token GET or the POST of a retry.
InPageLoop ==
    \/ crawl.pc = "page"
    \/ crawl.pc = "token" /\ crawl.token_for = "refresh"
    \/ crawl.pc = "send" /\ crawl.send_for = "page"

\* The crawl is over: it returned the list or left with an exception.
CrawlOver == crawl.pc \in {"returned", "raised"}

\* Once the first response has given the final page number F: page_num is
\* within 1..F; between two passes the pages before page_num have been
\* scraped, each once and in order, and the pages 2..page_num - 1 were each
\* got once, in order; and the scrape returns at page F with the links of
\* the pages 1..F.
PagesOnceInOrder ==
    crawl.final_page_num >= 1 =>
        \A pages \in {search_results(crawl.site, crawl.position).pages} :
            /\ crawl.page_num \in 1..crawl.final_page_num
            /\ InPageLoop =>
                  /\ crawl.page_num >= 2
                  /\ crawl.bioguide_ids =
                        ids_of_pages(pages, crawl.page_num - 1)
                  /\ pages_got = [i \in 1..(crawl.page_num - 2) |-> i + 1]
            /\ crawl.pc = "returned" =>
                  /\ crawl.page_num = crawl.final_page_num
                  /\ crawl.bioguide_ids =
                        ids_of_pages(pages, crawl.final_page_num)
                  /\ crawl.ret = Ok(crawl.first_ids \o crawl.bioguide_ids)
                  /\ crawl.position # "Delegate" =>
                        pages_got =
                           [i \in 1..(crawl.final_page_num - 1) |-> i + 1]

\* C37: in a crawl whose first response reports F >= 1 pages, page_num
\* stays within 1..F, each page 1..F is scraped exactly once and in
\* increasing order, also when page GETs were retried, and the crawl
\* terminates: it returns after page F, unless a request failed for good.
C37_PagesOnceThenReturn ==
    /\ [](crawl # <<>> => PagesOnceInOrder)
    /\ (crawl # <<>>) ~> (crawl # <<>> /\ CrawlOver)

\* Three pages were reported; the GETs of page 2 and of page 3 each failed
\* before they were answered, and the crawl returned the links of the three
\* pages in order.
C37_Witness ==
    /\ crawl # <<>>
    /\ crawl.pc = "returned"
    /\ crawl.final_page_num = 3
    /\ crawl.page_num = 3
    /\ \E i, j \in 1..Len(crawl.log) :
          /\ crawl.log[i].kind = "page GET" /\ ~crawl.log[i].ok
          /\ crawl.log[i].page = 2
          /\ crawl.log[j].kind = "page GET" /\ ~crawl.log[j].ok
          /\ crawl.log[j].page = 3
    /\ crawl.ret = Ok(<<<<"B", "2">>, <<"A", "1">>, <<"C", "3">>, <<"D", "4">>>>)

\* The worker threads of the pool have all left their loop.
WorkersExited ==
    /\ workers # <<>>
    /\ \A w \in DOMAIN workers : workers[w].pc = "exited"

\* While the sentinels are put: no identifier is left in the queue beside
\* them, no worker holds one, and the next q.put(0) finds room.
SentinelsAccepted ==
    main_pc = "cleanup" =>
        /\ q.ids = <<>>
        /\ qsize(q) = q.zeros
        /\ \A w \in DOMAIN workers : workers[w].pc \in {"loop", "get", "exited"}
        /\ put_idx < NUMBER_OF_THREADS => ENABLED MainPutSentinel

\* What a worker fetches is an identifier of the list, and never more
\* records are appended than the list has identifiers.
SentinelsNotFetched ==
    /\ \A w \in DOMAIN workers :
          workers[w].pc \in {"query", "task_done"} =>
              \E i \in 1..Len(bioguide_ids) :
                  bioguide_ids[i] = workers[w].bioguide_id
    /\ Len(member_records) <= Len(bioguide_ids)

\* C38: once q.join() has returned with all the records, every q.put(0)
\* is accepted at once and without an error, no sentinel is fetched as an
\* identifier, and every worker thread eventually leaves its loop.
C38_WorkersExitOnSentinels ==
    /\ [](SentinelsAccepted /\ SentinelsNotFetched)
    /\ (main_pc = "cleanup") ~> WorkersExited

\* The five identifiers were fetched, the call has returned its record and
\* both worker threads have exited; no sentinel is left in the queue.
C38_Witness ==
    /\ main_pc = "idle"
    /\ Len(results) = 1
    /\ Len(member_records) = 5
    /\ WorkersExited
    /\ q.zeros = 0

\* The assignment of this step was rejected with an invalid-record error.
Rejected == mexc' \in {"InvalidBioguideError", "InvalidGovInfoError"}

\* C39: an assignment that a bioguide or govinfo setter of CongressMember
\* or Congress rejects with an invalid-record error leaves the object as it
\* was: the stored records, the member's bioguide_id and its
\* complete_govinfo flag.
C39_RejectedAssignmentChangesNothing ==
    [][(AssignNext /\ Rejected) =>
          /\ member'._bg = member._bg
          /\ member'._gi = member._gi
          /\ member'._bg_id = member._bg_id
          /\ member'.complete_govinfo = member.complete_govinfo
          /\ member' = member
          /\ congress_object'._bg = congress_object._bg
          /\ congress_object'._gi = congress_object._gi
          /\ congress_object' = congress_object]_vars

\* A member holding the record of B2 and a complete GovInfo payload, and a
\* congress holding both records, after a rejected assignment of GovInfo to
\* the member.
C39_Witness ==
    /\ mop = "CongressMember.govinfo"
    /\ mexc = "InvalidGovInfoError"
    /\ member._bg_id = <<"B", "2">>
    /\ member._bg.bioguide_id = <<"B", "2">>
    /\ ~member._gi.none
    /\ member.complete_govinfo
    /\ ~congress_object._bg.none
    /\ ~congress_object._gi.none

----------------
(* Properties of the Congress object over both datasets.                    *)

\* The identifier under the payload's nested key, None when it is absent.
payload_id(entry) ==
    IF ~entry.has_members
    THEN NoneStr
    ELSE IF Len(entry.members) = 0
    THEN NoneStr
    ELSE IF "bioGuideId" \notin entry.members[1].keys
    THEN NoneStr
    ELSE entry.members[1].bioGuideId

\* The entry names a member of the Bioguide record.
matches_bioguide(entry, records) ==
    \E i \in 1..Len(records) : records[i].bioguide_id = payload_id(entry)

\* The positions of the directory entries that match no Bioguide member.
unmatched_entries(entries, records) ==
    {i \in 1..Len(entries) : ~matches_bioguide(entries[i], records)}

\* Both datasets of the Congress object are loaded and its members were read.
BothLoadedAndListed ==
    /\ cpc = "listed"
    /\ ~congress_object._gi.none
    /\ ~congress_object._bg.none

\* C17: with both datasets loaded, Congress.members returns, holds as many
\* members as the Bioguide record has members plus the directory has entries
\* that match no Bioguide member, and holds for each such entry a member
\* without Bioguide data that carries the entry, under the identifier of the
\* entry's nested key or under None when the key is absent.
C17_UnmatchedEntriesBecomePlaceholders ==
    BothLoadedAndListed =>
        /\ members_ret.exc = "none"
        /\ Len(members_ret.val) =
              Len(congress_object._bg.val.members)
                 + Cardinality(unmatched_entries(congress_object._gi.val.members,
                                                 congress_object._bg.val.members))
        /\ \A i \in unmatched_entries(congress_object._gi.val.members,
                                      congress_object._bg.val.members) :
              \E k \in 1..Len(members_ret.val) :
                 /\ members_ret.val[k]._gi = congress_object._gi.val.members[i]
                 /\ members_ret.val[k]._bg.bioguide_id = NoneStr
                 /\ members_ret.val[k]._bg_id =
                       payload_id(congress_object._gi.val.members[i])

\* C18: a Congress constructed with a GovInfo key, and include_bioguide left
\* false, for a congress GovInfo has no directory of ends its load without
\* GovInfo data and with Bioguide data.
C18_KeyedLoadKeepsBioguide ==
    (/\ cpc = "loaded"
     /\ ~congress_args.govinfo_api_key.none
     /\ ~congress_args.include_bioguide
     /\ ~_cdir_data_exists(congress_object._number))
        => /\ congress_object._gi.none
           /\ ~congress_object._bg.none

====
